---- MODULE Spec2Model ----
(***************************************************************************)
(* A model of the wtxmgr transaction store schema (wtxmgr/db.go).          *)
(*                                                                         *)
(* Keys and values are byte strings, modelled as sequences of integers in  *)
(* 0..255 with the layout of the source.  The Go slice v[a:b] is           *)
(* SubSeq(v, a+1, b).  The committed contents of the namespace are the     *)
(* variables root, buckets, credits, unspent, debits, multisig and         *)
(* multisigUsp; a write transaction works on a copy and only a successful  *)
(* Commit publishes it.                                                    *)
(***************************************************************************)
EXTENDS Integers, Sequences, FiniteSets, TLC

VARIABLES
    root,         \* scalar keys of the namespace root: name -> bytes
    buckets,      \* names of the buckets that exist in the namespace
    credits,      \* bucket "c": credit key -> credit value
    unspent,      \* bucket "u": canonical outpoint -> height || block hash
    debits,       \* bucket "d": debit key -> debit value
    multisig,     \* bucket "ms": canonical outpoint -> multisig value
    multisigUsp,  \* bucket "mu": canonical outpoint -> blank byte
    blocks,       \* bucket "b": block height key -> block record value
    txRecords,    \* bucket "t": tx record key -> tx record value
    it,           \* the blockIterator in use, if one was made
    unminedCredits, \* bucket "mc": canonical outpoint -> unmined credit value
    unminedInputs,  \* bucket "mi": canonical outpoint -> unmined spender hash
    pm,           \* the PurchaseManager's notification handler and workers
    last,         \* record of the last completed call (history)
    hist          \* history of the credit-lifecycle steps taken so far

vars ==
    <<root, buckets, credits, unspent, debits, multisig, multisigUsp, blocks, txRecords, it,
      unminedCredits, unminedInputs, pm, last, hist>>

(***************************************************************************)
(* Bytes                                                                   *)
(***************************************************************************)
Min(a, b) == IF a < b THEN a ELSE b

Zeros(n) == [i \in 1..n |-> 0]

\* copy(dst[off:off+n], src): copies min(n, len(src)) bytes.
Copy(dst, off, n, src) ==
    LET m == Min(Min(n, Len(src)), Len(dst) - off)
    IN SubSeq(dst, 1, off) \o SubSeq(src, 1, m) \o SubSeq(dst, off + m + 1, Len(dst))

\* byteOrder.PutUint32 for 0 <= x < 2^31.
PutUint32(x) ==
    <<(x \div 16777216) % 256, (x \div 65536) % 256, (x \div 256) % 256, x % 256>>

\* byteOrder.Uint32 of a 4-byte slice whose first byte is below 128.
Uint32(b) == b[1] * 16777216 + b[2] * 65536 + b[3] * 256 + b[4]

\* The one's complement of a byte string.
Complement(b) == [i \in 1..Len(b) |-> 255 - b[i]]

\* byteOrder.PutUint64(v, uint64(amt)) for an int64 amt with |amt| < 2^31:
\* a negative amount is stored in two's complement.
PutUint64(amt) ==
    IF amt >= 0
    THEN Zeros(4) \o PutUint32(amt)
    ELSE Complement(Zeros(4) \o PutUint32((-amt) - 1))

\* dcrutil.Amount(byteOrder.Uint64(v)): the int64 read back from 8 bytes.
AmountOf(v) ==
    IF v[1] < 128
    THEN Uint32(SubSeq(v, 5, 8))
    ELSE -(Uint32(SubSeq(Complement(v), 5, 8)) + 1)

(***************************************************************************)
(* Constants of the source                                                 *)
(***************************************************************************)
LatestVersion == 2

bucketBlocks == "b"
bucketTxRecords == "t"
bucketCredits == "c"
bucketUnspent == "u"
bucketDebits == "d"
bucketUnmined == "m"
bucketUnminedCredits == "mc"
bucketUnminedInputs == "mi"
bucketScripts == "sc"
bucketMultisig == "ms"
bucketMultisigUsp == "mu"

rootCreateDate == "date"
rootVersion == "vers"
rootMinedBalance == "bal"

\* The buckets in the order createStore creates them.
CreateOrder ==
    <<bucketBlocks, bucketTxRecords, bucketCredits, bucketDebits, bucketUnspent,
      bucketUnmined, bucketUnminedCredits, bucketUnminedInputs, bucketScripts,
      bucketMultisig, bucketMultisigUsp>>

AllBuckets == {CreateOrder[i] : i \in 1..Len(CreateOrder)}

(***************************************************************************)
(* Errors                                                                  *)
(***************************************************************************)
NoErr == [t |-> "nil"]

\* An error value that is not a store Error (an engine error, fmt.Errorf).
PlainErr(what) == [t |-> "plain", msg |-> what]

\* storeError(code, desc, err): Desc is kept as the list of its parts,
\* outermost annotation first.
storeError(code, desc, err) ==
    [t |-> "Error", Code |-> code, Desc |-> <<desc>>, Err |-> err]

IsError(e) == e.t = "Error"

\* serr.Desc = desc + ": " + serr.Desc
Annotate(desc, serr) == [serr EXCEPT !.Desc = <<desc>> \o @]

(***************************************************************************)
(* Namespace and transactions                                              *)
(***************************************************************************)
EmptyMap == [x \in {} |-> 0]

MapPut(m, k, v) == [x \in DOMAIN m \cup {k} |-> IF x = k THEN v ELSE m[x]]

MapDelete(m, k) == [x \in DOMAIN m \ {k} |-> m[x]]

\* The part of the namespace the lifecycle operations read and write.
NS(r, b) == [root |-> r, buckets |-> b]

\* ns.Cursor().First() returns a key: a root key or a bucket exists.
NonEmpty(ns) == DOMAIN ns.root # {} \/ ns.buckets # {}

\* scopedUpdate.  begin, rb and commit say whether the engine's Begin,
\* Rollback and Commit succeed; body is the outcome of f on the
\* transaction's copy: [err, ns].  The result is the returned error, the
\* committed namespace afterwards and the transaction calls made, in order.
scopedUpdate(pre, body, begin, rb, commit) ==
    IF ~begin
    THEN [err |-> storeError("ErrDatabase", "cannot begin update", PlainErr("Begin")),
          ns |-> pre, calls |-> <<>>]
    ELSE IF body.err # NoErr
    THEN [err |-> IF rb THEN body.err
                  ELSE IF ~IsError(body.err)
                       THEN storeError("ErrDatabase", "rollback failed", PlainErr("Rollback"))
                       ELSE Annotate("rollback failed", body.err),
          ns |-> pre, calls |-> <<"Rollback">>]
    ELSE IF ~commit
    THEN [err |-> storeError("ErrDatabase", "commit failed", PlainErr("Commit")),
          ns |-> pre, calls |-> <<"Commit">>]
    ELSE [err |-> NoErr, ns |-> body.ns, calls |-> <<"Commit">>]

\* scopedView: the body's writes, if any, are never published.
scopedView(bodyErr, begin, rb) ==
    IF ~begin
    THEN storeError("ErrDatabase", "cannot begin view", PlainErr("Begin"))
    ELSE IF bodyErr # NoErr THEN bodyErr
    ELSE IF ~rb THEN storeError("ErrDatabase", "cannot close view", PlainErr("Rollback"))
    ELSE NoErr

(***************************************************************************)
(* createStore and openStore                                               *)
(***************************************************************************)
\* The steps of createStore's body: three root keys, then the buckets.
NumCreateSteps == 3 + Len(CreateOrder)

CreateStepDesc(i) ==
    << "failed to store latest database version",
       "failed to store database creation time",
       "failed to write zero balance",
       "failed to create blocks bucket",
       "failed to create tx records bucket",
       "failed to create credits bucket",
       "failed to create debits bucket",
       "failed to create unspent bucket",
       "failed to create unmined bucket",
       "failed to create unmined credits bucket",
       "failed to create unmined inputs bucket",
       "failed to create scripts bucket",
       "failed to create multisig tx bucket",
       "failed to create multisig unspent tx bucket" >>[i]

\* The root keys written by the first n steps.
CreateRoot(n, now) ==
    [k \in {rootVersion : x \in {1} \cap 1..n}
           \cup {rootCreateDate : x \in {2} \cap 1..n}
           \cup {rootMinedBalance : x \in {3} \cap 1..n} |->
        CASE k = rootVersion -> PutUint32(LatestVersion)
          [] k = rootCreateDate -> PutUint64(now)
          [] OTHER -> Zeros(8)]

\* createStoreBody without the check that the namespace is empty.
createStoreBodyNoEmptyCheck(ns, failAt, now) ==
    LET done == IF failAt = 0 THEN NumCreateSteps ELSE failAt - 1
    IN [err |-> IF failAt = 0 THEN NoErr
                ELSE storeError("ErrDatabase", CreateStepDesc(failAt), PlainErr("engine")),
        ns |-> NS(CreateRoot(done, now), {CreateOrder[i - 3] : i \in 4..done})]

\* createStoreBody that never creates the last bucket of CreateOrder.
createStoreBodyForgetsBucket(ns, failAt, now) ==
    IF NonEmpty(ns)
    THEN [err |-> storeError("ErrAlreadyExists", "namespace is not empty", NoErr),
          ns |-> ns]
    ELSE LET done == IF failAt = 0 THEN NumCreateSteps ELSE failAt - 1
         IN [err |-> IF failAt = 0 THEN NoErr
                     ELSE storeError("ErrDatabase", CreateStepDesc(failAt),
                                     PlainErr("engine")),
             ns |-> NS(CreateRoot(done, now),
                       {CreateOrder[i - 3] : i \in 4..Min(done, NumCreateSteps - 1)})]

\* createStoreBody that drops the error of a failed engine call and goes on.
createStoreBodyIgnoresFailure(ns, failAt, now) ==
    IF NonEmpty(ns)
    THEN [err |-> storeError("ErrAlreadyExists", "namespace is not empty", NoErr),
          ns |-> ns]
    ELSE [err |-> NoErr,
          ns |-> NS([k \in DOMAIN CreateRoot(NumCreateSteps, now) \ 
                          {rootVersion : x \in {failAt} \cap {1}} |->
                        CreateRoot(NumCreateSteps, now)[k]],
                    {CreateOrder[i - 3] : i \in (4..NumCreateSteps) \ {failAt}})]

\* The body of createStore on the transaction's copy of ns.  failAt is the
\* step whose engine call fails (0: none); now is time.Now().Unix().
createStoreBody(ns, failAt, now) ==
    IF NonEmpty(ns)
    THEN [err |-> storeError("ErrAlreadyExists", "namespace is not empty", NoErr),
          ns |-> ns]
    ELSE LET done == IF failAt = 0 THEN NumCreateSteps ELSE failAt - 1
         IN [err |-> IF failAt = 0 THEN NoErr
                     ELSE storeError("ErrDatabase", CreateStepDesc(failAt),
                                     PlainErr("engine")),
             ns |-> NS(CreateRoot(done, now),
                       {CreateOrder[i - 3] : i \in 4..done})]

createStore(ns, failAt, now, begin, rb, commit) ==
    LET res == scopedUpdate(ns, createStoreBody(ns, failAt, now), begin, rb, commit)
    IN IF res.err = NoErr THEN res
       ELSE [res EXCEPT !.err =
                IF IsError(res.err)
                THEN Annotate("failed to create new store", res.err)
                ELSE storeError("ErrDatabase", "failed to create new store", res.err)]

\* The version openStore's view reads: zero when vers is missing or is not
\* 4 bytes long.
ReadVersion(ns) ==
    IF rootVersion \in DOMAIN ns.root /\ Len(ns.root[rootVersion]) = 4
    THEN Uint32(ns.root[rootVersion])
    ELSE 0

\* openStore that rejects the latest version as too new.
openStoreOffByOne(ns, begin, rb) ==
    LET verr == scopedView(NoErr, begin, rb)
        version == IF begin THEN ReadVersion(ns) ELSE 0
    IN IF verr # NoErr
       THEN IF IsError(verr) THEN Annotate("failed to open existing store", verr)
            ELSE storeError("ErrDatabase", "failed to open existing store", verr)
       ELSE IF version = 0
       THEN storeError("ErrNoExists", "no transaction store exists in namespace", NoErr)
       ELSE IF version >= LatestVersion
       THEN storeError("ErrUnknownVersion", "recorded version is newer", NoErr)
       ELSE NoErr

openStore(ns, begin, rb) ==
    LET verr == scopedView(NoErr, begin, rb)
        version == IF begin THEN ReadVersion(ns) ELSE 0
    IN IF verr # NoErr
       THEN IF IsError(verr) THEN Annotate("failed to open existing store", verr)
            ELSE storeError("ErrDatabase", "failed to open existing store", verr)
       ELSE IF version = 0
       THEN storeError("ErrNoExists", "no transaction store exists in namespace", NoErr)
       ELSE IF version > LatestVersion
       THEN storeError("ErrUnknownVersion", "recorded version is newer", NoErr)
       ELSE NoErr

\* fetchMinedBalance: the amount, or a Data error on a short read.
fetchMinedBalance(r) ==
    IF rootMinedBalance \in DOMAIN r /\ Len(r[rootMinedBalance]) = 8
    THEN [amt |-> AmountOf(r[rootMinedBalance]), err |-> NoErr]
    ELSE [amt |-> 0, err |-> storeError("ErrData", "mined balance: short read", NoErr)]

putMinedBalance(r, amt) == MapPut(r, rootMinedBalance, PutUint64(amt))

(***************************************************************************)
(* Flag bits                                                               *)
(***************************************************************************)
Pow2(i) == IF i = 0 THEN 1 ELSE IF i = 1 THEN 2 ELSE IF i = 2 THEN 4
           ELSE IF i = 3 THEN 8 ELSE IF i = 4 THEN 16 ELSE IF i = 5 THEN 32
           ELSE IF i = 6 THEN 64 ELSE 128

\* b & (1 << i) != 0
Bit(b, i) == (b \div Pow2(i)) % 2 = 1

\* b | (1 << i)
SetBit(b, i) == IF Bit(b, i) THEN b ELSE b + Pow2(i)

\* b &^ (1 << i)
ClearBit(b, i) == IF Bit(b, i) THEN b - Pow2(i) ELSE b

\* The value bucket.Get returns for a missing key (nil).
Nil == <<>>

Get(m, k) == IF k \in DOMAIN m THEN m[k] ELSE Nil

(***************************************************************************)
(* Credits (bucket "c"), unspent index (bucket "u"), debits (bucket "d")   *)
(***************************************************************************)
creditKeySize == 72

creditValueSize == 94

accountExistsMask == 128

\* canonicalOutPoint(txHash, index): 36 bytes.
canonicalOutPoint(txHash, index) ==
    Copy(Copy(Zeros(36), 0, 36, txHash), 32, 4, PutUint32(index))

\* keyCredit(txHash, index, block), block = [Hash, Height].
keyCredit(txHash, index, block) ==
    LET k1 == Copy(Zeros(creditKeySize), 0, creditKeySize, txHash)
        k2 == Copy(k1, 32, 4, PutUint32(block.Height))
        k3 == Copy(k2, 36, 32, block.Hash)
    IN Copy(k3, 68, 4, PutUint32(index))

\* condenseOpCode: uint8 arithmetic.
\* condenseOpCode without the shift into bits 2..4.
condenseOpCodeNoShift(opCode) == (opCode - 185) % 256

condenseOpCode(opCode) == (((opCode - 185) % 256) * 4) % 256

\* valueUnspentCredit(cred, scrType, scrLoc, scrLen, account),
\* cred = [amount, opCode, change, isCoinbase].
valueUnspentCredit(cred, scrType, scrLoc, scrLen, account) ==
    LET v1 == Copy(Zeros(creditValueSize), 0, 8, PutUint64(cred.amount))
        f0 == condenseOpCode(cred.opCode)
        f1 == IF cred.change THEN SetBit(f0, 1) ELSE f0
        f2 == IF cred.isCoinbase THEN SetBit(f1, 5) ELSE f1
        v2 == [v1 EXCEPT ![9] = f2, ![82] = SetBit(scrType, 7)]
        v3 == Copy(v2, 82, 4, PutUint32(scrLoc))
        v4 == Copy(v3, 86, 4, PutUint32(scrLen))
    IN Copy(v4, 90, 4, PutUint32(account))

putRawCredit(cr, k, v) == MapPut(cr, k, v)

\* putUnspentCredit, cred = [outPoint, block, amount, opCode, change, isCoinbase].
putUnspentCredit(cr, cred, scrType, scrLoc, scrLen, account) ==
    putRawCredit(cr, keyCredit(cred.outPoint.Hash, cred.outPoint.Index, cred.block),
                 valueUnspentCredit(cred, scrType, scrLoc, scrLen, account))

extractRawCreditTxHash(k) == SubSeq(k, 1, 32)

extractRawCreditIndex(k) == Uint32(SubSeq(k, 69, 72))

\* fetchRawCreditAmountSpent of a value of at least 9 bytes.
fetchRawCreditAmountSpent(v) ==
    [amt |-> AmountOf(SubSeq(v, 1, 8)), spent |-> Bit(v[9], 0)]

\* fetchRawCreditUnspentValue slicing the key four bytes too far.
fetchRawCreditUnspentValueShifted(k) == SubSeq(k, 37, 72)

\* fetchRawCreditUnspentValue(k) for a key of at least 72 bytes: k[32:68].
fetchRawCreditUnspentValue(k) == SubSeq(k, 33, 68)

\* spendCredit(ns, k, spender), spender = [txHash, block, index]: the
\* amount returned and the credits bucket afterwards.  The value read (nil
\* when there is no record) is copied into a fresh 94-byte value.
spendCredit(cr, k, spender) ==
    LET v == Get(cr, k)
        v0 == Copy(Zeros(creditValueSize), 0, creditValueSize, v)
        v1 == [v0 EXCEPT ![9] = SetBit(@, 0)]
        v2 == Copy(v1, 9, 32, spender.txHash)
        v3 == Copy(v2, 41, 4, PutUint32(spender.block.Height))
        v4 == Copy(v3, 45, 32, spender.block.Hash)
        v5 == Copy(v4, 77, 4, PutUint32(spender.index))
    IN [amt |-> AmountOf(SubSeq(v5, 1, 8)), credits |-> putRawCredit(cr, k, v5)]

\* unspendRawCredit that copies the stored value without its script locator.
unspendRawCreditDropsLocator(cr, k) ==
    LET v == Get(cr, k)
        v0 == Copy(Zeros(creditValueSize), 0, 81, v)
        newv == [v0 EXCEPT ![9] = ClearBit(@, 0)]
    IN IF v = Nil
       THEN [amt |-> 0, credits |-> cr]
       ELSE [amt |-> AmountOf(SubSeq(v, 1, 8)), credits |-> MapPut(cr, k, newv)]

\* unspendRawCredit(ns, k): (0, nil) and no write when there is no record.
unspendRawCredit(cr, k) ==
    LET v == Get(cr, k)
        v0 == Copy(Zeros(creditValueSize), 0, creditValueSize, v)
        newv == [v0 EXCEPT ![9] = ClearBit(@, 0)]
    IN IF v = Nil
       THEN [amt |-> 0, credits |-> cr]
       ELSE [amt |-> AmountOf(SubSeq(v, 1, 8)), credits |-> MapPut(cr, k, newv)]

existsRawCredit(cr, k) == Get(cr, k)

deleteRawCredit(cr, k) == MapDelete(cr, k)

\* valueUnspent(block): height || block hash.
valueUnspent(block) ==
    Copy(Copy(Zeros(36), 0, 4, PutUint32(block.Height)), 4, 32, block.Hash)

putUnspent(u, outPoint, block) ==
    MapPut(u, canonicalOutPoint(outPoint.Hash, outPoint.Index), valueUnspent(block))

putRawUnspent(u, k, v) == MapPut(u, k, v)

\* existsRawUnspent(ns, k): the credit key composed from the unspent key
\* and value, nil when there is none.
existsRawUnspent(u, k) ==
    LET v == Get(u, k)
    IN IF Len(k) < 36 \/ Len(v) < 36 THEN Nil
       ELSE Copy(Copy(Copy(Zeros(72), 0, 32, k), 32, 36, v), 68, 4, SubSeq(k, 33, 36))

deleteRawUnspent(u, k) == MapDelete(u, k)

keyDebit(txHash, index, block) ==
    LET k1 == Copy(Zeros(72), 0, 72, txHash)
        k2 == Copy(k1, 32, 4, PutUint32(block.Height))
        k3 == Copy(k2, 36, 32, block.Hash)
    IN Copy(k3, 68, 4, PutUint32(index))

putDebit(d, txHash, index, amount, block, credKey) ==
    MapPut(d, keyDebit(txHash, index, block),
           Copy(Copy(Zeros(80), 0, 8, PutUint64(amount)), 8, 72, credKey))

extractRawDebitCreditKey(v) == SubSeq(v, 9, 80)

(***************************************************************************)
(* Multisig outputs (bucket "ms") and unspent multisig set (bucket "mu")   *)
(***************************************************************************)
TxTreeRegular == 0

TxTreeStake == 1

keyMultisigOut(hash, index) == canonicalOutPoint(hash, index)

\* valueMultisigOut: 135 bytes.
valueMultisigOut(sh, m, n, spent, tree, blockHash, blockHeight, amount, spentBy, sbi, txHash) ==
    LET v1 == Copy(Zeros(135), 0, 20, SubSeq(sh, 1, 20))
        f0 == IF spent THEN SetBit(0, 0) ELSE 0
        f1 == IF tree = TxTreeStake THEN SetBit(f0, 1) ELSE f0
        v2 == [v1 EXCEPT ![21] = m, ![22] = n, ![23] = f1]
        v3 == Copy(v2, 23, 32, blockHash)
        v4 == Copy(v3, 55, 4, PutUint32(blockHeight))
        v5 == Copy(v4, 59, 8, PutUint64(amount))
        v6 == Copy(v5, 67, 32, spentBy)
        v7 == Copy(v6, 99, 4, PutUint32(sbi))
    IN Copy(v7, 103, 32, txHash)

fetchMultisigOutSpent(v) == Bit(v[23], 0)

setMultisigOutSpent(v, spendHash, spendIndex) ==
    LET v1 == [v EXCEPT ![23] = SetBit(0, 0)]
        v2 == Copy(v1, 67, 32, spendHash)
    IN Copy(v2, 99, 4, PutUint32(spendIndex))

\* setMultisigOutUnSpent that leaves the flag byte as it is.
setMultisigOutUnSpentKeepsFlag(v) ==
    Copy(Copy(v, 67, 31, Zeros(32)), 99, 4, <<255, 255, 255, 255>>)

\* setMultisigOutUnSpent that clears all 32 bytes of the spent-by hash.
setMultisigOutUnSpentClearsHash(v) ==
    Copy(Copy([v EXCEPT ![23] = 0], 67, 32, Zeros(32)), 99, 4, <<255, 255, 255, 255>>)

\* setMultisigOutUnSpent: copy(v[67:98], empty[:]) copies 31 bytes, and
\* PutUint32(v[99:103], 0xFFFFFFFF) stores four bytes of 255.
setMultisigOutUnSpent(v) ==
    LET v1 == [v EXCEPT ![23] = 0]
        v2 == Copy(v1, 67, 31, Zeros(32))
    IN Copy(v2, 99, 4, <<255, 255, 255, 255>>)

deleteMultisigOut(ms, k) == MapDelete(ms, k)

\* putMultisigOut(ns, mso)
putMultisigOut(ms, mso) ==
    MapPut(ms, keyMultisigOut(mso.OutPoint.Hash, mso.OutPoint.Index),
           valueMultisigOut(mso.ScriptHash, mso.M, mso.N, mso.Spent, mso.Tree,
                            mso.BlockHash, mso.BlockHeight, mso.Amount, mso.SpentBy,
                            mso.SpentByIndex, mso.TxHash))

putMultisigOutRawValues(ms, k, v) == MapPut(ms, k, v)

\* existsMultisigOut: nil, or a 135-byte copy of the stored value.
existsMultisigOut(ms, k) ==
    IF Get(ms, k) = Nil THEN Nil ELSE Copy(Zeros(135), 0, 135, Get(ms, k))

putMultisigOutUS(mu, k) == MapPut(mu, k, <<0>>)

deleteMultisigOutUS(mu, k) == MapDelete(mu, k)

existsMultisigOutUS(mu, k) == Get(mu, k) # Nil

(***************************************************************************)
(* Store lifecycle: createStore, openStore and update transactions         *)
(***************************************************************************)
MaxAmount == 2

MaxTime == 2

\* Errors a transaction body passed to scopedUpdate may return: nil, store
\* errors, and an error that is no store Error (as fetchChainHeight's).
BodyErrors ==
    {NoErr,
     storeError("ErrData", "short read", NoErr),
     storeError("ErrDatabase", "failed to put balance", PlainErr("Put")),
     PlainErr("blockchain could not iterate to top block")}

\* What a store created at time now holds.
CreatedNS(now) == NS(CreateRoot(NumCreateSteps, now), AllBuckets)

\* Namespaces a store may be opened or created in: empty, holding a foreign
\* key or bucket, or holding a vers key written by some version of the
\* software (possibly truncated or overlong).
InitialNamespaces ==
    {NS(EmptyMap, {}),
     NS(MapPut(EmptyMap, "other", <<1>>), {}),
     NS(EmptyMap, {"other"}),
     NS(MapPut(EmptyMap, rootVersion, <<0, 0, 2>>), {}),
     NS(MapPut(EmptyMap, rootVersion, <<0, 0, 0, 0, 2>>), {}),
     NS(MapPut(EmptyMap, rootVersion, PutUint32(0)), {}),
     NS(MapPut(CreatedNS(1).root, rootVersion, PutUint32(1)), AllBuckets),
     NS(MapPut(CreatedNS(1).root, rootVersion, PutUint32(LatestVersion + 1)), AllBuckets),
     NS(MapPut(EmptyMap, rootVersion, PutUint32(256)), {})}

\* Outcomes of the engine's Begin, Rollback and Commit in one transaction.
\* scopedUpdate calls Rollback or Commit, never both, and neither when Begin
\* fails, so the outcome of a call that is not made is fixed to success.
EngineOutcomes ==
    {o \in [begin : BOOLEAN, rb : BOOLEAN, commit : BOOLEAN] :
        /\ ~o.begin => (o.rb /\ o.commit)
        /\ o.rb \/ o.commit}

NoCall ==
    [op |-> "none", pre |-> NS(EmptyMap, {}), err |-> NoErr, calls |-> <<>>,
     begin |-> FALSE, rb |-> FALSE, commit |-> FALSE, failAt |-> 0, now |-> 0,
     bodyErr |-> NoErr, afterCreate |-> FALSE]

\* No blockIterator has been made.
NoIter == [made |-> FALSE]

\* No NotificationHandler has been started.
NoManager == [started |-> FALSE]

NoHist ==
    [insertSpendOnly |-> TRUE, collision |-> FALSE, unspendAbsent |-> FALSE,
     spendAbsent |-> FALSE, reinsert |-> FALSE, live |-> EmptyMap]

Init ==
    /\ \E ns \in InitialNamespaces : root = ns.root /\ buckets = ns.buckets
    /\ credits = EmptyMap
    /\ unspent = EmptyMap
    /\ debits = EmptyMap
    /\ multisig = EmptyMap
    /\ multisigUsp = EmptyMap
    /\ blocks = EmptyMap
    /\ txRecords = EmptyMap
    /\ it = NoIter
    /\ unminedCredits = EmptyMap
    /\ unminedInputs = EmptyMap
    /\ pm = NoManager
    /\ last = NoCall
    /\ hist = NoHist

CreateStore ==
    \E failAt \in 0..NumCreateSteps, now \in 1..MaxTime, o \in EngineOutcomes :
        LET pre == NS(root, buckets)
            begin == o.begin
            rb == o.rb
            commit == o.commit
            body == createStoreBody(pre, failAt, now)
            res == createStore(pre, failAt, now, begin, rb, commit)
        IN \* the body stops before its first write on a non-empty namespace
           \* and does not run when Begin fails
           /\ (NonEmpty(pre) \/ ~begin) => (failAt = 0 /\ now = 1)
           /\ root' = res.ns.root
           /\ buckets' = res.ns.buckets
           /\ last' = [op |-> "createStore", pre |-> pre, err |-> res.err,
                       calls |-> res.calls, begin |-> begin, rb |-> rb,
                       commit |-> commit, failAt |-> failAt, now |-> now,
                       bodyErr |-> body.err, afterCreate |-> FALSE]
           /\ UNCHANGED <<unminedCredits, unminedInputs, pm, credits, unspent, debits, multisig, multisigUsp, hist, blocks, txRecords, it>>

OpenStore ==
    \E begin, rb \in BOOLEAN :
        /\ ~begin => rb
        /\ last' = [op |-> "openStore", pre |-> NS(root, buckets),
                    err |-> openStore(NS(root, buckets), begin, rb),
                    calls |-> IF begin THEN <<"Rollback">> ELSE <<>>,
                    begin |-> begin, rb |-> rb, commit |-> FALSE, failAt |-> 0,
                    now |-> 0, bodyErr |-> NoErr,
                    afterCreate |-> (last.op = "createStore" /\ last.err = NoErr)]
        /\ UNCHANGED <<unminedCredits, unminedInputs, pm, root, buckets, credits, unspent, debits, multisig, multisigUsp, hist, blocks, txRecords, it>>

\* A write transaction whose body stores a balance and then returns e.
Update ==
    \E amt \in 1..MaxAmount, e \in BodyErrors, o \in EngineOutcomes :
        LET pre == NS(root, buckets)
            begin == o.begin
            rb == o.rb
            commit == o.commit
            body == [err |-> e, ns |-> NS(putMinedBalance(root, amt), buckets)]
            res == scopedUpdate(pre, body, begin, rb, commit)
        IN /\ root' = res.ns.root
           /\ buckets' = res.ns.buckets
           /\ last' = [op |-> "update", pre |-> pre, err |-> res.err,
                       calls |-> res.calls, begin |-> begin, rb |-> rb,
                       commit |-> commit, failAt |-> 0, now |-> 0,
                       bodyErr |-> e, afterCreate |-> FALSE]
           /\ UNCHANGED <<unminedCredits, unminedInputs, pm, credits, unspent, debits, multisig, multisigUsp, hist, blocks, txRecords, it>>

Next == CreateStore \/ OpenStore \/ Update

Spec == Init /\ [][Next]_vars

(***************************************************************************)
(* Properties of the store lifecycle                                       *)
(***************************************************************************)
\* The error kind of e: the Code of a store Error, else "nil" or "plain".
Kind(e) == IF IsError(e) THEN e.Code ELSE e.t

InSeq(x, s) == \E i \in 1..Len(s) : s[i] = x

IsSuffix(s, t) == Len(s) <= Len(t) /\ SubSeq(t, Len(t) - Len(s) + 1, Len(t)) = s

\* C5: createStore on a namespace that holds any key or bucket changes
\* nothing, never commits, returns an error, and that error is of kind
\* AlreadyExists whenever the write transaction could be begun (also when
\* the rollback then fails).
C5_CreateOnNonEmpty ==
    (last.op = "createStore" /\ NonEmpty(last.pre)) =>
        /\ NS(root, buckets) = last.pre
        /\ ~InSeq("Commit", last.calls)
        /\ last.err # NoErr
        /\ last.begin => Kind(last.err) = "ErrAlreadyExists"

\* A second createStore on a store that createStore made.
C5_Witness ==
    /\ last.op = "createStore"
    /\ last.begin
    /\ last.pre.buckets = AllBuckets
    /\ rootVersion \in DOMAIN last.pre.root
    /\ last.pre.root[rootVersion] = <<0, 0, 0, LatestVersion>>
    /\ Kind(last.err) = "ErrAlreadyExists"
    /\ root = last.pre.root

\* C6 (as amended): when createStore on an empty namespace returns nil it
\* has committed, in one write transaction, vers = [0,0,0,2], date = the
\* creation time in 8 bytes, bal = 8 zero bytes, and the eleven buckets
\* b, t, c, d, u, m, mc, mi, sc, ms, mu.
C6_CreateWritesStore ==
    (last.op = "createStore" /\ last.err = NoErr) =>
        /\ ~NonEmpty(last.pre)
        /\ last.calls = <<"Commit">>
        /\ DOMAIN root = {rootVersion, rootCreateDate, rootMinedBalance}
        /\ root[rootVersion] = <<0, 0, 0, 2>>
        /\ root[rootCreateDate] = <<0, 0, 0, 0, 0, 0, 0, last.now>>
        /\ root[rootMinedBalance] = <<0, 0, 0, 0, 0, 0, 0, 0>>
        /\ buckets = {"b", "t", "c", "d", "u", "m", "mc", "mi", "sc", "ms", "mu"}
        /\ Cardinality(buckets) = 11

C6_Witness == last.op = "createStore" /\ last.err = NoErr /\ last.now = MaxTime

\* C6 (as claimed): a successful createStore has created twelve buckets.
C6_TwelveBuckets ==
    (last.op = "createStore" /\ last.err = NoErr) =>
        /\ DOMAIN root = {rootVersion, rootCreateDate, rootMinedBalance}
        /\ root[rootVersion] = <<0, 0, 0, 2>>
        /\ root[rootCreateDate] = <<0, 0, 0, 0, 0, 0, 0, last.now>>
        /\ root[rootMinedBalance] = <<0, 0, 0, 0, 0, 0, 0, 0>>
        /\ Cardinality(buckets) = 12

\* C7: when an engine Put or CreateBucket of createStore fails, at whichever
\* step, createStore returns an error, Rollback is called, Commit is not,
\* and the namespace is still empty.
C7_CreateIsAtomic ==
    (last.op = "createStore" /\ last.begin /\ last.failAt # 0) =>
        /\ last.err # NoErr
        /\ last.calls = <<"Rollback">>
        /\ DOMAIN root = {}
        /\ buckets = {}

\* The last CreateBucket fails and so does the rollback.
C7_Witness ==
    /\ last.op = "createStore"
    /\ last.begin
    /\ last.failAt = NumCreateSteps
    /\ ~last.rb
    /\ Kind(last.err) = "ErrDatabase"

\* C8: openStore, when its view transaction begins and closes, returns
\* NoExists if vers is missing or not 4 bytes long, UnknownVersion if the
\* stored version is greater than 2, and nil right after a successful
\* createStore, when the balance reads 0 and vers reads [0,0,0,2].
C8_OpenByVersion ==
    (last.op = "openStore" /\ last.begin /\ last.rb) =>
        LET r == last.pre.root
            has == rootVersion \in DOMAIN r
        IN /\ (~has \/ Len(r[rootVersion]) # 4) => Kind(last.err) = "ErrNoExists"
           /\ (has /\ Len(r[rootVersion]) = 4 /\ Uint32(r[rootVersion]) > 2)
                 => Kind(last.err) = "ErrUnknownVersion"
           /\ last.afterCreate =>
                 /\ last.err = NoErr
                 /\ fetchMinedBalance(root) = [amt |-> 0, err |-> NoErr]
                 /\ root[rootVersion] = <<0, 0, 0, 2>>

C8_Witness ==
    /\ last.op = "openStore"
    /\ last.begin
    /\ last.rb
    /\ last.afterCreate
    /\ last.err = NoErr

\* C9: when the body of an update returns an error e and the rollback fails
\* too, the returned error is still e: an Error keeps its Code and cause
\* and gains only an annotation, any other error is returned as it is.
C9_RollbackNeverReplaces ==
    (last.op = "update" /\ last.begin /\ last.bodyErr # NoErr /\ ~last.rb) =>
        IF IsError(last.bodyErr)
        THEN /\ IsError(last.err)
             /\ last.err.Code = last.bodyErr.Code
             /\ last.err.Err = last.bodyErr.Err
             /\ IsSuffix(last.bodyErr.Desc, last.err.Desc)
        ELSE last.err = last.bodyErr

\* C10: after Begin succeeded, an error return implies that Rollback was
\* called, Commit is called only after the body returned nil, and no
\* transaction is both committed and rolled back.
C10_RollbackOnEveryError ==
    (last.op \in {"update", "createStore"} /\ last.begin) =>
        /\ last.err # NoErr => InSeq("Rollback", last.calls)
        /\ InSeq("Commit", last.calls) => last.bodyErr = NoErr
        /\ ~(InSeq("Commit", last.calls) /\ InSeq("Rollback", last.calls))

(***************************************************************************)
(* Credit lifecycle: the write transactions that insert, spend, unspend    *)
(* and delete mined credits.  Each step is one committed transaction; a    *)
(* transaction that fails or is rolled back changes nothing.               *)
(***************************************************************************)
MaxBalance == 2

Hash(i) == [j \in 1..32 |-> i]

Block1 == [Hash |-> Hash(11), Height |-> 1]

Block2 == [Hash |-> Hash(12), Height |-> 2]

\* Outputs of one transaction, each with the amount the transaction gives
\* it: output 0 as mined in two blocks, and output 1.
Outputs ==
    {[outPoint |-> [Hash |-> Hash(1), Index |-> 0], block |-> Block1, amount |-> 1],
     [outPoint |-> [Hash |-> Hash(1), Index |-> 0], block |-> Block2, amount |-> 1],
     [outPoint |-> [Hash |-> Hash(1), Index |-> 1], block |-> Block1, amount |-> 2]}

\* Inputs of a mined spending transaction (indexedIncidence).
Spenders ==
    {[txHash |-> Hash(2), block |-> Block2, index |-> 0],
     [txHash |-> Hash(2), block |-> Block2, index |-> 1]}

CredKey(o) == keyCredit(o.outPoint.Hash, o.outPoint.Index, o.block)

\* The canonical outpoint of the output a credit key names.
OutPointOf(k) == canonicalOutPoint(extractRawCreditTxHash(k), extractRawCreditIndex(k))

\* Another credit key of the same outpoint has a record.
Collides(k) ==
    \E k2 \in DOMAIN credits : k2 # k /\ OutPointOf(k2) = OutPointOf(k)

InBalanceRange(b) == -MaxBalance <= b /\ b <= MaxBalance

CreditInit ==
    /\ root = CreatedNS(1).root
    /\ buckets = AllBuckets
    /\ credits = EmptyMap
    /\ unspent = EmptyMap
    /\ debits = EmptyMap
    /\ multisig = EmptyMap
    /\ multisigUsp = EmptyMap
    /\ blocks = EmptyMap
    /\ txRecords = EmptyMap
    /\ it = NoIter
    /\ unminedCredits = EmptyMap
    /\ unminedInputs = EmptyMap
    /\ pm = NoManager
    /\ last = NoCall
    /\ hist = NoHist

\* insert: putUnspentCredit, putUnspent, and the amount added to bal.
InsertCredit(outs) ==
    \E o \in outs :
        LET amount == o.amount
            cred == [outPoint |-> o.outPoint, block |-> o.block, amount |-> amount,
                     opCode |-> 186, change |-> TRUE, isCoinbase |-> FALSE]
            bal == fetchMinedBalance(root).amt + amount
        IN /\ InBalanceRange(bal)
           /\ credits' = putUnspentCredit(credits, cred, 2, 12, 25, 0)
           /\ unspent' = putUnspent(unspent, o.outPoint, o.block)
           /\ root' = putMinedBalance(root, bal)
           /\ hist' = [hist EXCEPT !.collision = @ \/ Collides(CredKey(o)),
                                   !.reinsert = @ \/ CredKey(o) \in DOMAIN credits]
           /\ UNCHANGED <<unminedCredits, unminedInputs, pm, buckets, debits, multisig, multisigUsp, last, blocks, txRecords, it>>

\* spend: putDebit for the spending input, spendCredit, the returned amount
\* subtracted from bal, deleteRawUnspent.
SpendCredit(outs, spenders) ==
    \E o \in outs, sp \in spenders :
        LET k == CredKey(o)
            r == spendCredit(credits, k, sp)
            bal == fetchMinedBalance(root).amt - r.amt
        IN /\ InBalanceRange(bal)
           /\ credits' = r.credits
           /\ debits' = putDebit(debits, sp.txHash, sp.index, r.amt, sp.block, k)
           /\ unspent' = deleteRawUnspent(unspent, OutPointOf(k))
           /\ root' = putMinedBalance(root, bal)
           /\ hist' = [hist EXCEPT !.collision = @ \/ Collides(k),
                                   !.spendAbsent = @ \/ k \notin DOMAIN credits]
           /\ UNCHANGED <<unminedCredits, unminedInputs, pm, buckets, multisig, multisigUsp, last, blocks, txRecords, it>>

\* unspend: unspendRawCredit, the returned amount added to bal,
\* putRawUnspent with fetchRawCreditUnspentValue(k).
UnspendCredit(outs) ==
    \E o \in outs :
        LET k == CredKey(o)
            r == unspendRawCredit(credits, k)
            bal == fetchMinedBalance(root).amt + r.amt
        IN /\ InBalanceRange(bal)
           /\ credits' = r.credits
           /\ unspent' = putRawUnspent(unspent, OutPointOf(k), fetchRawCreditUnspentValue(k))
           /\ root' = putMinedBalance(root, bal)
           /\ hist' = [hist EXCEPT !.collision = @ \/ Collides(k),
                                   !.unspendAbsent = @ \/ k \notin DOMAIN credits,
                                   !.insertSpendOnly = FALSE]
           /\ UNCHANGED <<unminedCredits, unminedInputs, pm, buckets, debits, multisig, multisigUsp, last, blocks, txRecords, it>>

\* delete: deleteRawCredit of an existing credit, its amount subtracted
\* from bal if it was unspent, deleteRawUnspent.
DeleteCredit(outs) ==
    \E o \in outs :
        LET k == CredKey(o)
            v == fetchRawCreditAmountSpent(existsRawCredit(credits, k))
            bal == fetchMinedBalance(root).amt - (IF v.spent THEN 0 ELSE v.amt)
        IN /\ k \in DOMAIN credits
           /\ InBalanceRange(bal)
           /\ credits' = deleteRawCredit(credits, k)
           /\ unspent' = deleteRawUnspent(unspent, OutPointOf(k))
           /\ root' = putMinedBalance(root, bal)
           /\ hist' = [hist EXCEPT !.collision = @ \/ Collides(k),
                                   !.insertSpendOnly = FALSE]
           /\ UNCHANGED <<unminedCredits, unminedInputs, pm, buckets, debits, multisig, multisigUsp, last, blocks, txRecords, it>>

\* The credit lifecycle over all outputs, spent by one input.
CreditNext ==
    \/ InsertCredit(Outputs)
    \/ SpendCredit(Outputs, {sp \in Spenders : sp.index = 0})
    \/ UnspendCredit(Outputs)
    \/ DeleteCredit(Outputs)

CreditSpec == CreditInit /\ [][CreditNext]_vars

\* The credit lifecycle of one output, spent by several inputs.
DebitNext ==
    \/ InsertCredit({o \in Outputs : o.outPoint.Index = 1})
    \/ SpendCredit({o \in Outputs : o.outPoint.Index = 1}, Spenders)
    \/ UnspendCredit({o \in Outputs : o.outPoint.Index = 1})
    \/ DeleteCredit({o \in Outputs : o.outPoint.Index = 1})

DebitSpec == CreditInit /\ [][DebitNext]_vars

(***************************************************************************)
(* Multisig lifecycle: the write transactions on buckets "ms" and "mu"     *)
(***************************************************************************)
MsOutPoints == {[Hash |-> Hash(1), Index |-> 0], [Hash |-> Hash(3), Index |-> 1]}

MsSpenders == {[hash |-> Hash(4), index |-> 0], [hash |-> Hash(5), index |-> 2]}

MsKey(op) == keyMultisigOut(op.Hash, op.Index)

\* putMultisigOut of an unspent output, with putMultisigOutUS.
PutMultisig ==
    \E op \in MsOutPoints, tree \in {TxTreeRegular, TxTreeStake}, amount \in 1..MaxAmount :
        LET mso == [OutPoint |-> op, ScriptHash |-> [j \in 1..20 |-> 7], M |-> 1,
                    N |-> 2, Spent |-> FALSE, Tree |-> tree, BlockHash |-> Block1.Hash,
                    BlockHeight |-> Block1.Height, Amount |-> amount,
                    SpentBy |-> Zeros(32), SpentByIndex |-> 0, TxHash |-> op.Hash]
        IN /\ multisig' = putMultisigOut(multisig, mso)
           /\ multisigUsp' = putMultisigOutUS(multisigUsp, MsKey(op))
           /\ UNCHANGED <<unminedCredits, unminedInputs, pm, root, buckets, credits, unspent, debits, last, hist, blocks, txRecords, it>>

\* existsMultisigOut, setMultisigOutSpent, putMultisigOutRawValues and
\* deleteMultisigOutUS.  The setter indexes the value, so the record exists.
SpendMultisig ==
    \E op \in MsOutPoints, sp \in MsSpenders :
        LET v == existsMultisigOut(multisig, MsKey(op))
        IN /\ v # Nil
           /\ multisig' = putMultisigOutRawValues(multisig, MsKey(op),
                              setMultisigOutSpent(v, sp.hash, sp.index))
           /\ multisigUsp' = deleteMultisigOutUS(multisigUsp, MsKey(op))
           /\ UNCHANGED <<unminedCredits, unminedInputs, pm, root, buckets, credits, unspent, debits, last, hist, blocks, txRecords, it>>

\* existsMultisigOut, setMultisigOutUnSpent, putMultisigOutRawValues and
\* putMultisigOutUS.
UnspendMultisig ==
    \E op \in MsOutPoints :
        LET v == existsMultisigOut(multisig, MsKey(op))
        IN /\ v # Nil
           /\ multisig' = putMultisigOutRawValues(multisig, MsKey(op),
                              setMultisigOutUnSpent(v))
           /\ multisigUsp' = putMultisigOutUS(multisigUsp, MsKey(op))
           /\ UNCHANGED <<unminedCredits, unminedInputs, pm, root, buckets, credits, unspent, debits, last, hist, blocks, txRecords, it>>

\* deleteMultisigOut with deleteMultisigOutUS.
DeleteMultisig ==
    \E op \in MsOutPoints :
        /\ multisig' = deleteMultisigOut(multisig, MsKey(op))
        /\ multisigUsp' = deleteMultisigOutUS(multisigUsp, MsKey(op))
        /\ UNCHANGED <<unminedCredits, unminedInputs, pm, root, buckets, credits, unspent, debits, last, hist, blocks, txRecords, it>>

MultisigNext == PutMultisig \/ SpendMultisig \/ UnspendMultisig \/ DeleteMultisig

MultisigSpec == CreditInit /\ [][MultisigNext]_vars

(***************************************************************************)
(* Properties of the credit and multisig buckets                           *)
(***************************************************************************)
RECURSIVE SumAmounts(_, _)
\* The sum of the amount fields of the records of cr with keys in ks.
SumAmounts(cr, ks) ==
    IF ks = {} THEN 0
    ELSE LET k == CHOOSE x \in ks : TRUE
         IN AmountOf(SubSeq(cr[k], 1, 8)) + SumAmounts(cr, ks \ {k})

\* The keys of bucket c whose Spent bit is 0.
UnspentCreditKeys == {k \in DOMAIN credits : ~Bit(credits[k][9], 0)}

BalanceIdentity ==
    /\ fetchMinedBalance(root).err = NoErr
    /\ fetchMinedBalance(root).amt = SumAmounts(credits, UnspentCreditKeys)

\* C1: after any sequence of credit-lifecycle transactions that insert
\* credits under keys without a record, bal equals the sum of the amounts
\* of the credits whose Spent bit is 0 -- spendCredit of an already spent
\* credit and unspendRawCredit of an already unspent one included.
C1_BalanceIdentity == ~hist.reinsert => BalanceIdentity

\* The keys existsRawUnspent composes from the entries of bucket u.
ComposedUnspentKeys == {existsRawUnspent(unspent, ku) : ku \in DOMAIN unspent}

UnspentBijection ==
    /\ UnspentCreditKeys = ComposedUnspentKeys
    /\ \A k \in UnspentCreditKeys : Len(k) = 72

\* C2 (as claimed): after any sequence of credit-lifecycle transactions the
\* unspent keys of c are the keys composed from u.
C2_UnspentBijection == UnspentBijection

\* C2 (as amended): the same, for sequences in which no step is applied to
\* a credit key while another credit key of the same outpoint (tx hash and
\* output index, another block) has a record, and unspend is applied only
\* to keys that have a record.
C2_UnspentBijectionOneIncarnation ==
    (~hist.collision /\ ~hist.unspendAbsent) => UnspentBijection

\* Output 0 was spent and unspent again and is back in u, output 1 is
\* spent and not in u.
C2_Witness ==
    /\ ~hist.collision
    /\ ~hist.unspendAbsent
    /\ \E k \in UnspentCreditKeys :
          /\ SubSeq(credits[k], 10, 41) = Hash(2)
          /\ existsRawUnspent(unspent, OutPointOf(k)) = k
    /\ \E k \in DOMAIN credits : Bit(credits[k][9], 0) /\ OutPointOf(k) \notin DOMAIN unspent

DebitCreditLink ==
    \A dk \in DOMAIN debits :
        LET ck == extractRawDebitCreditKey(debits[dk])
        IN /\ ck \in DOMAIN credits
           /\ Bit(credits[ck][9], 0)
           /\ SubSeq(credits[ck], 10, 81) = dk

\* C3: after any sequence of transactions that insert credits and record
\* debits by putDebit together with spendCredit, every debit value ends in
\* the key of a credit that is spent and refers back to that debit.  The
\* sequences are those in which every credit is inserted once and every
\* debit spends a credit that has a record.
C3_DebitCreditLink ==
    (hist.insertSpendOnly /\ ~hist.reinsert /\ ~hist.spendAbsent) => DebitCreditLink

\* C4: an outpoint is a key of mu iff ms holds a record for it whose Spent
\* bit is 0.
C4_MultisigUnspentMirror ==
    \A k \in DOMAIN multisig \cup DOMAIN multisigUsp \cup {MsKey(op) : op \in MsOutPoints} :
        existsMultisigOutUS(multisigUsp, k)
            <=> (existsMultisigOut(multisig, k) # Nil
                 /\ ~fetchMultisigOutSpent(existsMultisigOut(multisig, k)))

\* One output is spent and not in mu, the other was spent and unspent again
\* (spent_by_index is 0xFFFFFFFF) and is in mu.
C4_Witness ==
    /\ \E k \in DOMAIN multisig :
          fetchMultisigOutSpent(multisig[k]) /\ ~existsMultisigOutUS(multisigUsp, k)
    /\ \E k \in DOMAIN multisig :
          /\ ~fetchMultisigOutSpent(multisig[k])
          /\ SubSeq(multisig[k], 100, 103) = <<255, 255, 255, 255>>
          /\ existsMultisigOutUS(multisigUsp, k)

(***************************************************************************)
(* Block records (bucket "b"): height key -> block hash (32), time (8),    *)
(* vote bits (2), number of tx hashes (4), then the tx hashes (32 each).   *)
(***************************************************************************)
\* byteOrder.PutUint16
PutUint16(x) == <<(x \div 256) % 256, x % 256>>

\* The uint32 in the 4 bytes b plus d (d is 1 or -1), modulo 2^32.
AddUint32(b, d) ==
    LET hi == b[1] * 256 + b[2]
        lo == b[3] * 256 + b[4] + d
        carry == IF lo < 0 THEN -1 ELSE IF lo > 65535 THEN 1 ELSE 0
    IN PutUint16((hi + carry + 65536) % 65536) \o PutUint16((lo + 65536) % 65536)

keyBlockRecord(height) == PutUint32(height)

valueBlockRecordEmpty(block) ==
    block.Hash \o PutUint64(block.Time) \o PutUint16(block.VoteBits) \o PutUint32(0)

valueBlockRecord(block, txHash) ==
    block.Hash \o PutUint64(block.Time) \o PutUint16(block.VoteBits) \o PutUint32(1)
        \o txHash

\* What a block-value operation does: it panics, or returns (v, err).
Returned(v, err) == [panic |-> FALSE, v |-> v, err |-> err]

Panics == [panic |-> TRUE, v |-> Nil, err |-> NoErr]

appendRawBlockRecord(v, txHash) ==
    IF Len(v) < 46
    THEN Returned(Nil, storeError("ErrData", "appendRawBlockRecord short read", NoErr))
    ELSE LET newv == v \o txHash
         IN Returned(SubSeq(newv, 1, 42) \o AddUint32(SubSeq(newv, 43, 46), 1)
                         \o SubSeq(newv, 47, Len(newv)),
                     NoErr)

\* The 32-byte segments of v after its 46-byte header, in order.
TrailingHashes(v) == [i \in 1..((Len(v) - 46) \div 32) |-> SubSeq(v, 46 + 32 * (i - 1) + 1, 46 + 32 * i)]

RECURSIVE Concat(_)
Concat(hs) == IF hs = <<>> THEN <<>> ELSE Head(hs) \o Concat(Tail(hs))

\* removeRawBlockRecord that leaves the number of tx hashes as it was.
removeRawBlockRecordKeepsCount(v, txHash) ==
    IF Len(v) < 46
    THEN Returned(Nil, storeError("ErrData", "short read for removeRawBlockRecord", NoErr))
    ELSE LET kept == SelectSeq(TrailingHashes(v), LAMBDA h : h # txHash)
             filled == SubSeq(v, 1, 46) \o Concat(kept)
         IN IF Len(v) - 32 < 46 \/ Len(filled) > Len(v) - 32
            THEN Panics
            ELSE Returned(filled \o Zeros(Len(v) - 32 - Len(filled)), NoErr)

\* newValue has length len(v) - 32.  Slicing newValue[0:46], or the slot of
\* a hash that is kept, beyond that length panics (slice bounds out of
\* range); slots that are never written stay zero.
removeRawBlockRecord(v, txHash) ==
    IF Len(v) < 46
    THEN Returned(Nil, storeError("ErrData", "short read for removeRawBlockRecord", NoErr))
    ELSE LET newLength == Len(v) - 32
             kept == SelectSeq(TrailingHashes(v), LAMBDA h : h # txHash)
             filled == SubSeq(v, 1, 46) \o Concat(kept)
         IN IF newLength < 46 \/ Len(filled) > newLength
            THEN Panics
            ELSE LET newValue == filled \o Zeros(newLength - Len(filled))
                 IN Returned(SubSeq(newValue, 1, 42) \o AddUint32(SubSeq(newValue, 43, 46), -1)
                                 \o SubSeq(newValue, 47, newLength),
                             NoErr)

putRawBlockRecord(b, k, v) == MapPut(b, k, v)

putBlockRecord(b, block, txHash) ==
    putRawBlockRecord(b, keyBlockRecord(block.Height), valueBlockRecord(block, txHash))

existsBlockRecord(b, height) == Get(b, keyBlockRecord(height))

deleteBlockRecord(b, height) == MapDelete(b, keyBlockRecord(height))

\* The loop of fetchChainHeight from height i on.
RECURSIVE ChainScan(_, _, _)
ChainScan(b, i, lastValidHeight) ==
    IF existsBlockRecord(b, i) = Nil THEN lastValidHeight ELSE ChainScan(b, i + 1, i)

fetchChainHeight(b, startHeight) ==
    LET lastValidHeight == ChainScan(b, startHeight, 0)
    IN IF lastValidHeight = 0
       THEN [height |-> 0, err |-> PlainErr("blockchain could not iterate to top block")]
       ELSE [height |-> lastValidHeight, err |-> NoErr]

(***************************************************************************)
(* Block index: the write transactions on bucket "b" and the chain height  *)
(* query.  hist.live[k] is the set of tx hashes put or appended to the     *)
(* record under key k and not removed since.                               *)
(***************************************************************************)
MaxHeight == 2

MaxTxs == 3

TxHashes == {Hash(21), Hash(22)}

\* The BlockMeta of the block at a height.
BlockMetaAt(height) ==
    [Hash |-> Hash(30 + height), Height |-> height, Time |-> 1, VoteBits |-> 1]

Live(k) == IF k \in DOMAIN hist.live THEN hist.live[k] ELSE {}

\* The number of tx hashes field of a block record value.
NumTx(v) == SubSeq(v, 43, 46)

\* putBlockRecord(ns, block, txHash)
PutBlockRecord(heights) ==
    \E height \in heights, h \in TxHashes :
        LET k == keyBlockRecord(height)
        IN /\ blocks' = putBlockRecord(blocks, BlockMetaAt(height), h)
           /\ last' = [op |-> "putBlockRecord", height |-> height, txHash |-> h,
                       pre |-> existsBlockRecord(blocks, height)]
           /\ hist' = [hist EXCEPT !.live = MapPut(@, k, {h})]
           /\ UNCHANGED <<unminedCredits, unminedInputs, pm, root, buckets, credits, unspent, debits, multisig, multisigUsp,
                          txRecords, it>>

\* deleteBlockRecord(ns, height)
DeleteBlockRecord(heights) ==
    \E height \in heights :
        /\ blocks' = deleteBlockRecord(blocks, height)
        /\ last' = [op |-> "deleteBlockRecord", height |-> height]
        /\ hist' = [hist EXCEPT !.live = MapDelete(@, keyBlockRecord(height))]
        /\ UNCHANGED <<unminedCredits, unminedInputs, pm, root, buckets, credits, unspent, debits, multisig, multisigUsp,
                       txRecords, it>>

\* fetchChainHeight(ns, startHeight)
FetchChainHeight ==
    \E from \in 0..(MaxHeight + 1) :
        /\ last' = [op |-> "fetchChainHeight", from |-> from,
                    ret |-> fetchChainHeight(blocks, from)]
        /\ UNCHANGED <<unminedCredits, unminedInputs, pm, root, buckets, credits, unspent, debits, multisig, multisigUsp,
                       blocks, txRecords, it, hist>>

ChainNext ==
    \/ PutBlockRecord(0..MaxHeight)
    \/ DeleteBlockRecord(0..MaxHeight)
    \/ FetchChainHeight

ChainSpec == CreditInit /\ [][ChainNext]_vars

HasBlock(h) == existsBlockRecord(blocks, h) # Nil

\* C11: fetchChainHeight(from) fails iff there is no block record at height
\* from, and otherwise returns the greatest h >= from such that every
\* height from..h has a block record.
C11_ChainHeight ==
    last.op = "fetchChainHeight" =>
        /\ (last.ret.err # NoErr) <=> ~HasBlock(last.from)
        /\ HasBlock(last.from) =>
              /\ last.ret.height >= last.from
              /\ \A h \in last.from..last.ret.height : HasBlock(h)
              /\ ~HasBlock(last.ret.height + 1)

\* C20: putBlockRecord for a height that already has a record listing
\* h1..hn leaves a record listing h1..hn followed by the new tx hash, with
\* n_tx = n + 1.
C20_PutAppends ==
    (last.op = "putBlockRecord" /\ last.pre # Nil) =>
        LET v == existsBlockRecord(blocks, last.height)
        IN /\ TrailingHashes(v) = Append(TrailingHashes(last.pre), last.txHash)
           /\ NumTx(v) = AddUint32(NumTx(last.pre), 1)

(***************************************************************************)
(* The record of one block: created empty or with one tx hash, then tx     *)
(* hashes appended to and removed from its value.                          *)
(***************************************************************************)
\* What the last call leaves for the next one to refer to.
PrevCall ==
    IF last.op \in {"appendRawBlockRecord", "removeRawBlockRecord"}
    THEN [op |-> last.op, txHash |-> last.txHash, v |-> last.v, res |-> last.res]
    ELSE [op |-> "none"]

\* putRawBlockRecord(ns, keyBlockRecord(height), valueBlockRecordEmpty(block))
PutEmptyBlockRecord(heights) ==
    \E height \in heights :
        LET k == keyBlockRecord(height)
        IN /\ blocks' = putRawBlockRecord(blocks, k, valueBlockRecordEmpty(BlockMetaAt(height)))
           /\ last' = [op |-> "putEmptyBlockRecord", height |-> height]
           /\ hist' = [hist EXCEPT !.live = MapPut(@, k, {})]
           /\ UNCHANGED <<unminedCredits, unminedInputs, pm, root, buckets, credits, unspent, debits, multisig, multisigUsp,
                          txRecords, it>>

\* appendTx: the stored value is read, appendRawBlockRecord applied and the
\* returned value written back.
AppendTx(heights) ==
    \E height \in heights, h \in TxHashes :
        LET k == keyBlockRecord(height)
            v == existsBlockRecord(blocks, height)
            res == appendRawBlockRecord(v, h)
            ok == ~res.panic /\ res.err = NoErr
        IN /\ v # Nil
           /\ Len(TrailingHashes(v)) < MaxTxs
           /\ blocks' = IF ok THEN putRawBlockRecord(blocks, k, res.v) ELSE blocks
           /\ last' = [op |-> "appendRawBlockRecord", height |-> height, txHash |-> h,
                       v |-> v, res |-> res, prev |-> PrevCall]
           /\ hist' = IF ok THEN [hist EXCEPT !.live = MapPut(@, k, Live(k) \cup {h})]
                      ELSE hist
           /\ UNCHANGED <<unminedCredits, unminedInputs, pm, root, buckets, credits, unspent, debits, multisig, multisigUsp,
                          txRecords, it>>

\* removeTx: the stored value is read, removeRawBlockRecord applied and the
\* returned value written back; a panic ends the transaction without a
\* write.
RemoveTx(heights) ==
    \E height \in heights, h \in TxHashes :
        LET k == keyBlockRecord(height)
            v == existsBlockRecord(blocks, height)
            res == removeRawBlockRecord(v, h)
            ok == ~res.panic /\ res.err = NoErr
        IN /\ v # Nil
           /\ blocks' = IF ok THEN putRawBlockRecord(blocks, k, res.v) ELSE blocks
           /\ last' = [op |-> "removeRawBlockRecord", height |-> height, txHash |-> h,
                       v |-> v, res |-> res, prev |-> PrevCall]
           /\ hist' = IF ok THEN [hist EXCEPT !.live = MapPut(@, k, Live(k) \ {h})]
                      ELSE hist
           /\ UNCHANGED <<unminedCredits, unminedInputs, pm, root, buckets, credits, unspent, debits, multisig, multisigUsp,
                          txRecords, it>>

BlockValueNext ==
    \/ PutEmptyBlockRecord({0})
    \/ PutBlockRecord({0})
    \/ AppendTx({0})
    \/ RemoveTx({0})

BlockValueSpec == CreditInit /\ [][BlockValueNext]_vars

\* n_tx equals the number of trailing 32-byte hashes.
ValidBlockValue(v) ==
    /\ Len(v) >= 46
    /\ (Len(v) - 46) % 32 = 0
    /\ NumTx(v) = PutUint32(Len(TrailingHashes(v)))

Count(h, hs) == Cardinality({i \in 1..Len(hs) : hs[i] = h})

SameMultiset(hs, gs) ==
    /\ Len(hs) = Len(gs)
    /\ \A i \in 1..Len(hs) : Count(hs[i], hs) = Count(hs[i], gs)

\* C17: for a block value v with n_tx equal to its number of hashes and a
\* tx hash h listed exactly once, removeRawBlockRecord(v, h) returns a
\* value 32 bytes shorter with the same first 42 bytes, n_tx one less and
\* the hash list of v with h elided, the others in their order.
C17_RemoveElidesHash ==
    (/\ last.op = "removeRawBlockRecord"
     /\ ValidBlockValue(last.v)
     /\ Count(last.txHash, TrailingHashes(last.v)) = 1) =>
        /\ ~last.res.panic
        /\ last.res.err = NoErr
        /\ Len(last.res.v) = Len(last.v) - 32
        /\ SubSeq(last.res.v, 1, 42) = SubSeq(last.v, 1, 42)
        /\ NumTx(last.res.v) = AddUint32(NumTx(last.v), -1)
        /\ TrailingHashes(last.res.v)
               = SelectSeq(TrailingHashes(last.v), LAMBDA g : g # last.txHash)

\* A hash listed once between two others was removed.
C17_Witness ==
    /\ last.op = "removeRawBlockRecord"
    /\ ValidBlockValue(last.v)
    /\ Len(TrailingHashes(last.v)) = 3
    /\ TrailingHashes(last.v)[2] = last.txHash
    /\ Count(last.txHash, TrailingHashes(last.v)) = 1
    /\ Len(TrailingHashes(last.res.v)) = 2

\* C18: every call of appendRawBlockRecord and removeRawBlockRecord returns
\* without panicking, and every stored value has n_tx equal to its number
\* of trailing hashes, each of them appended and not removed since.
C18_BlockRecordConsistency ==
    /\ last.op \in {"appendRawBlockRecord", "removeRawBlockRecord"} => ~last.res.panic
    /\ \A k \in DOMAIN blocks :
          /\ ValidBlockValue(blocks[k])
          /\ \A i \in 1..Len(TrailingHashes(blocks[k])) : TrailingHashes(blocks[k])[i] \in Live(k)

\* C19: for a valid block value v and a tx hash h listed in v,
\* appendRawBlockRecord(removeRawBlockRecord(v, h), h) has the 46-byte
\* header of v (n_tx included) and the same multiset of trailing hashes.
C19_AppendAfterRemove ==
    (/\ last.op = "appendRawBlockRecord"
     /\ last.prev.op = "removeRawBlockRecord"
     /\ last.prev.txHash = last.txHash
     /\ ValidBlockValue(last.prev.v)
     /\ Count(last.txHash, TrailingHashes(last.prev.v)) >= 1
     /\ ~last.prev.res.panic
     /\ last.v = last.prev.res.v) =>
        /\ ~last.res.panic
        /\ last.res.err = NoErr
        /\ SubSeq(last.res.v, 1, 46) = SubSeq(last.prev.v, 1, 46)
        /\ SameMultiset(TrailingHashes(last.res.v), TrailingHashes(last.prev.v))

(***************************************************************************)
(* Cursors and the block iterator                                          *)
(***************************************************************************)
\* bytes.Compare(a, b) < 0
RECURSIVE BytesLess(_, _)
BytesLess(a, b) ==
    IF b = <<>> THEN FALSE
    ELSE IF a = <<>> THEN TRUE
    ELSE IF Head(a) # Head(b) THEN Head(a) < Head(b)
    ELSE BytesLess(Tail(a), Tail(b))

\* bytes.HasPrefix(s, prefix)
HasPrefix(s, prefix) == Len(s) >= Len(prefix) /\ SubSeq(s, 1, Len(prefix)) = prefix

\* The least and the greatest key of a non-empty set of keys.
MinKey(ks) == CHOOSE k \in ks : \A j \in ks : j = k \/ BytesLess(k, j)

MaxKey(ks) == CHOOSE k \in ks : \A j \in ks : j = k \/ BytesLess(j, k)

\* Cursor.Seek(seek): the first key at or after seek, or no key (Nil).
CursorSeek(b, seek) ==
    LET ks == {k \in DOMAIN b : k = seek \/ BytesLess(seek, k)}
    IN IF ks = {} THEN Nil ELSE MinKey(ks)

\* Cursor.Next() from the key pos.
CursorNext(b, pos) ==
    LET ks == {k \in DOMAIN b : BytesLess(pos, k)}
    IN IF ks = {} THEN Nil ELSE MinKey(ks)

\* Cursor.Prev() from the key pos; from past the last key (pos = Nil, after
\* a Seek that found no key) it returns the last key.
CursorPrev(b, pos) ==
    LET ks == IF pos = Nil THEN DOMAIN b ELSE {k \in DOMAIN b : BytesLess(k, pos)}
    IN IF ks = {} THEN Nil ELSE MaxKey(ks)

\* readRawBlockRecord(k, v, &block) for a height below 2^31.
readRawBlockRecord(k, v) ==
    IF Len(k) < 4
    THEN [err |-> storeError("ErrData", "short key for readRawBlockRecord", NoErr)]
    ELSE IF Len(v) < 46
    THEN [err |-> storeError("ErrData", "short value read for readRawBlockRecord", NoErr)]
    ELSE IF Len(v) < 46 + 32 * Uint32(NumTx(v))
    THEN [err |-> storeError("ErrData", "short read readRawBlockRecord for hashes", NoErr)]
    ELSE [err |-> NoErr,
          Height |-> Uint32(SubSeq(k, 1, 4)),
          Hash |-> SubSeq(v, 1, 32),
          Time |-> AmountOf(SubSeq(v, 33, 40)),
          VoteBits |-> SubSeq(v, 41, 42),
          transactions |-> [i \in 1..Uint32(NumTx(v)) |->
                               SubSeq(v, 46 + 32 * (i - 1) + 1, 46 + 32 * i)]]

\* A blockIterator: c says whether the cursor field is non-nil.
makeBlockIterator(height) ==
    [made |-> TRUE, kind |-> "block", c |-> TRUE, seek |-> PutUint32(height), ck |-> Nil,
     cv |-> Nil, elem |-> [err |-> NoErr], err |-> NoErr]

\* ns: the namespace whose bucket "b" the cursor is opened on.
makeReverseBlockIterator(ns) ==
    [made |-> TRUE, kind |-> "block", c |-> TRUE, seek |-> <<255, 255, 255, 255>>, ck |-> Nil,
     cv |-> Nil, elem |-> [err |-> NoErr], err |-> NoErr]

\* The tail of next and prev, once the cursor has moved to key ck.
IterRead(i, b, ck) ==
    IF ck = Nil
    THEN [it |-> [i EXCEPT !.c = FALSE, !.ck = Nil, !.cv = Nil], ret |-> FALSE]
    ELSE LET rec == readRawBlockRecord(ck, b[ck])
         IN IF rec.err # NoErr
            THEN [it |-> [i EXCEPT !.c = FALSE, !.ck = ck, !.cv = b[ck], !.err = rec.err],
                  ret |-> FALSE]
            ELSE [it |-> [i EXCEPT !.ck = ck, !.cv = b[ck], !.elem = rec], ret |-> TRUE]

\* blockIterator.prev that does not step back after the first Seek.
prevNoStepBack(i, b) ==
    IF ~i.c THEN [it |-> i, ret |-> FALSE]
    ELSE IF i.ck = Nil THEN IterRead(i, b, CursorSeek(b, i.seek))
    ELSE IterRead(i, b, CursorPrev(b, i.ck))

\* blockIterator.prev
prev(i, b) ==
    IF ~i.c THEN [it |-> i, ret |-> FALSE]
    ELSE IF i.ck = Nil
    THEN LET sk == CursorSeek(b, i.seek)
         IN IterRead(i, b, IF ~HasPrefix(sk, i.seek) THEN CursorPrev(b, sk) ELSE sk)
    ELSE IterRead(i, b, CursorPrev(b, i.ck))

(***************************************************************************)
(* Reverse scans of a bucket "b" that holds well-formed block records      *)
(***************************************************************************)
IterHeights == {0, 1, 100, 150, 200, 256}

\* prev() calls made after the iterator has returned false.
MaxCallsAfterEnd == 1

\* The bucket with a record for each height of hs.
BlocksAt(hs) ==
    [k \in {keyBlockRecord(h) : h \in hs} |->
        LET h == Uint32(k)
        IN IF h % 100 = 0 THEN valueBlockRecord(BlockMetaAt(h), Hash(21))
           ELSE valueBlockRecordEmpty(BlockMetaAt(h))]

IterInit ==
    /\ root = CreatedNS(1).root
    /\ buckets = AllBuckets
    /\ credits = EmptyMap
    /\ unspent = EmptyMap
    /\ debits = EmptyMap
    /\ multisig = EmptyMap
    /\ multisigUsp = EmptyMap
    /\ \E hs \in SUBSET IterHeights : blocks = BlocksAt(hs)
    /\ txRecords = EmptyMap
    /\ it = NoIter
    /\ unminedCredits = EmptyMap
    /\ unminedInputs = EmptyMap
    /\ pm = NoManager
    /\ last = NoCall
    /\ hist = NoHist

MakeReverseBlockIterator ==
    /\ ~it.made
    /\ it' = makeReverseBlockIterator(NS(root, buckets))
    /\ last' = [op |-> "makeReverseBlockIterator", yielded |-> <<>>, ended |-> 0]
    /\ UNCHANGED <<unminedCredits, unminedInputs, pm, root, buckets, credits, unspent, debits, multisig, multisigUsp, blocks,
                   txRecords, hist>>

\* it.prev(); the heights of the records it has yielded are kept in last.
Prev ==
    /\ it.made
    /\ it.kind = "block"
    /\ it.seek = <<255, 255, 255, 255>>
    /\ last.ended <= MaxCallsAfterEnd
    /\ LET r == prev(it, blocks)
       IN /\ it' = r.it
          /\ last' = [op |-> "prev", ret |-> r.ret,
                      yielded |-> IF r.ret THEN Append(last.yielded, r.it.elem.Height)
                                  ELSE last.yielded,
                      ended |-> IF r.ret THEN last.ended ELSE last.ended + 1]
    /\ UNCHANGED <<unminedCredits, unminedInputs, pm, root, buckets, credits, unspent, debits, multisig, multisigUsp, blocks,
                   txRecords, hist>>

IterNext == MakeReverseBlockIterator \/ Prev

IterSpec == IterInit /\ [][IterNext]_vars

\* The elements of a set of numbers, greatest first.
RECURSIVE Descending(_)
Descending(S) ==
    IF S = {} THEN <<>>
    ELSE LET m == CHOOSE x \in S : \A y \in S : y <= x
         IN <<m>> \o Descending(S \ {m})

\* C12: the prev() calls on a reverse block iterator yield the block
\* records one by one from the greatest height down, each once, and return
\* false only when every record has been yielded (at once on an empty
\* bucket); every later call returns false too.
C12_ReverseScan ==
    it.made =>
        LET all == Descending({Uint32(k) : k \in DOMAIN blocks})
        IN /\ Len(last.yielded) <= Len(all)
           /\ last.yielded = SubSeq(all, 1, Len(last.yielded))
           /\ last.ended > 0 => last.yielded = all
           /\ (last.op = "prev" /\ last.ret) =>
                 /\ last.ended = 0
                 /\ it.elem.Hash = SubSeq(blocks[keyBlockRecord(it.elem.Height)], 1, 32)

\* Records at heights 100, 150, 200 and 256 were yielded as 256, 200, 150,
\* 100 and the next prev() returned false.
C12_Witness ==
    /\ it.made
    /\ last.yielded = <<256, 200, 150, 100>>
    /\ last.ended = 1
    /\ last.op = "prev" /\ ~last.ret

(***************************************************************************)
(* Mined transaction records (bucket "t"): tx hash (32), block height (4), *)
(* block hash (32) -> received time (8), serialized transaction.           *)
(***************************************************************************)
keyTxRecord(txHash, block) == txHash \o PutUint32(block.Height) \o block.Hash

putRawTxRecord(t, k, v) == MapPut(t, k, v)

deleteTxRecord(t, txHash, block) == MapDelete(t, keyTxRecord(txHash, block))

\* latestTxRecord that returns the first record with the prefix.
latestTxRecordFirst(t, txHash) ==
    LET ck == CursorSeek(t, txHash)
    IN IF HasPrefix(ck, txHash) THEN [k |-> ck, v |-> t[ck]] ELSE [k |-> Nil, v |-> Nil]

\* The loop of latestTxRecord with the cursor at ck.
RECURSIVE LatestScan(_, _, _, _)
LatestScan(t, prefix, ck, lastKey) ==
    IF HasPrefix(ck, prefix) THEN LatestScan(t, prefix, CursorNext(t, ck), ck) ELSE lastKey

latestTxRecord(t, txHash) ==
    LET lastKey == LatestScan(t, txHash, CursorSeek(t, txHash), Nil)
    IN [k |-> lastKey, v |-> Get(t, lastKey)]

\* The transactions recorded and the blocks that mine them: two blocks at
\* height 120, and heights on both sides of a byte boundary.
RecordedTxs == {Hash(1), Hash(2)}

TxBlocks ==
    {[Hash |-> Hash(14), Height |-> 100], [Hash |-> Hash(13), Height |-> 120],
     [Hash |-> Hash(12), Height |-> 120], [Hash |-> Hash(11), Height |-> 256]}

\* A tx record value: the received time, then the serialized transaction.
TxValue(txHash, block) == PutUint64(1) \o <<txHash[1], block.Hash[1]>>

PutRawTxRecord ==
    \E h \in RecordedTxs, block \in TxBlocks :
        /\ txRecords' = putRawTxRecord(txRecords, keyTxRecord(h, block), TxValue(h, block))
        /\ last' = [op |-> "putRawTxRecord", txHash |-> h]
        /\ UNCHANGED <<unminedCredits, unminedInputs, pm, root, buckets, credits, unspent, debits, multisig, multisigUsp, blocks,
                       it, hist>>

DeleteTxRecord ==
    \E h \in RecordedTxs, block \in TxBlocks :
        /\ txRecords' = deleteTxRecord(txRecords, h, block)
        /\ last' = [op |-> "deleteTxRecord", txHash |-> h]
        /\ UNCHANGED <<unminedCredits, unminedInputs, pm, root, buckets, credits, unspent, debits, multisig, multisigUsp, blocks,
                       it, hist>>

LatestTxRecord ==
    \E h \in RecordedTxs \cup {Hash(0), Hash(3)} :
        /\ last' = [op |-> "latestTxRecord", txHash |-> h, ret |-> latestTxRecord(txRecords, h)]
        /\ UNCHANGED <<unminedCredits, unminedInputs, pm, root, buckets, credits, unspent, debits, multisig, multisigUsp, blocks,
                       txRecords, it, hist>>

TxNext == PutRawTxRecord \/ DeleteTxRecord \/ LatestTxRecord

TxSpec == CreditInit /\ [][TxNext]_vars

\* C13: latestTxRecord(hash) returns the record with the greatest key among
\* the keys that start with the hash, which has the greatest height of
\* them, and (nil, nil) when no key starts with the hash.
C13_LatestTxRecord ==
    last.op = "latestTxRecord" =>
        LET ks == {k \in DOMAIN txRecords : SubSeq(k, 1, 32) = last.txHash}
        IN IF ks = {}
           THEN last.ret.k = Nil /\ last.ret.v = Nil
           ELSE /\ last.ret.k \in ks
                /\ \A k \in ks : k = last.ret.k \/ BytesLess(k, last.ret.k)
                /\ \A k \in ks : Uint32(SubSeq(k, 33, 36)) <= Uint32(SubSeq(last.ret.k, 33, 36))
                /\ last.ret.v = txRecords[last.ret.k]

\* The hash is recorded at heights 100 and 120, another hash at height 256,
\* and the record at height 120 is returned.
C13_Witness ==
    /\ last.op = "latestTxRecord"
    /\ last.txHash = Hash(1)
    /\ {Uint32(SubSeq(k, 33, 36)) : k \in {j \in DOMAIN txRecords : SubSeq(j, 1, 32) = Hash(1)}}
           = {100, 120}
    /\ \E k \in DOMAIN txRecords : SubSeq(k, 1, 32) = Hash(2) /\ Uint32(SubSeq(k, 33, 36)) = 256
    /\ Uint32(SubSeq(last.ret.k, 33, 36)) = 120

(***************************************************************************)
(* One mined credit, spent and unspent again: the steps of the credit      *)
(* lifecycle with the value read and the amount returned kept in last.     *)
(***************************************************************************)
TheCredit == [outPoint |-> [Hash |-> Hash(1), Index |-> 0], block |-> Block1]

\* The call before this one, for the next call to refer to.
PrevCreditCall ==
    IF last.op \in {"spendCredit", "unspendRawCredit"}
    THEN [op |-> last.op, k |-> last.k, v |-> last.v, amt |-> last.amt]
    ELSE [op |-> "none"]

\* A store holding one unspent credit written by putUnspentCredit.
RoundTripInit ==
    /\ \E amount \in 0..MaxAmount, opCode \in {185, 186, 189}, change \in BOOLEAN,
          isCoinbase \in BOOLEAN, scrType \in {0, 2}, account \in {0, 7} :
          /\ credits = putUnspentCredit(EmptyMap,
                           [outPoint |-> TheCredit.outPoint, block |-> TheCredit.block,
                            amount |-> amount, opCode |-> opCode, change |-> change,
                            isCoinbase |-> isCoinbase],
                           scrType, 12, 25, account)
          /\ root = putMinedBalance(CreatedNS(1).root, amount)
    /\ buckets = AllBuckets
    /\ unspent = putUnspent(EmptyMap, TheCredit.outPoint, TheCredit.block)
    /\ debits = EmptyMap
    /\ multisig = EmptyMap
    /\ multisigUsp = EmptyMap
    /\ blocks = EmptyMap
    /\ txRecords = EmptyMap
    /\ it = NoIter
    /\ unminedCredits = EmptyMap
    /\ unminedInputs = EmptyMap
    /\ pm = NoManager
    /\ last = NoCall
    /\ hist = NoHist

\* The spend step, with the call of spendCredit recorded.
SpendRecorded ==
    \E sp \in Spenders :
        LET k == CredKey(TheCredit)
            r == spendCredit(credits, k, sp)
            bal == fetchMinedBalance(root).amt - r.amt
        IN /\ InBalanceRange(bal)
           /\ credits' = r.credits
           /\ debits' = putDebit(debits, sp.txHash, sp.index, r.amt, sp.block, k)
           /\ unspent' = deleteRawUnspent(unspent, OutPointOf(k))
           /\ root' = putMinedBalance(root, bal)
           /\ last' = [op |-> "spendCredit", k |-> k, v |-> Get(credits, k), amt |-> r.amt,
                       prev |-> PrevCreditCall]
           /\ UNCHANGED <<unminedCredits, unminedInputs, pm, buckets, multisig, multisigUsp, blocks, txRecords, it, hist>>

\* The unspend step, with the call of unspendRawCredit recorded.
UnspendRecorded ==
    LET k == CredKey(TheCredit)
        r == unspendRawCredit(credits, k)
        bal == fetchMinedBalance(root).amt + r.amt
    IN /\ InBalanceRange(bal)
       /\ credits' = r.credits
       /\ unspent' = putRawUnspent(unspent, OutPointOf(k), fetchRawCreditUnspentValue(k))
       /\ root' = putMinedBalance(root, bal)
       /\ last' = [op |-> "unspendRawCredit", k |-> k, v |-> Get(credits, k), amt |-> r.amt,
                   prev |-> PrevCreditCall]
       /\ UNCHANGED <<unminedCredits, unminedInputs, pm, buckets, debits, multisig, multisigUsp, blocks, txRecords, it, hist>>

RoundTripNext == SpendRecorded \/ UnspendRecorded

RoundTripSpec == RoundTripInit /\ [][RoundTripNext]_vars

\* C14: spendCredit(k, spender) followed by unspendRawCredit(k) on a
\* 94-byte credit value with Spent = 0 leaves the amount bytes, the flag
\* byte (Spent clear; Change, opcode and IsCoinbase as they were) and the
\* script locator bytes 81..94 as they were, and both calls return the
\* credit's amount.
C14_SpendUnspendRoundTrip ==
    (/\ last.op = "unspendRawCredit"
     /\ last.prev.op = "spendCredit"
     /\ last.prev.k = last.k
     /\ Len(last.prev.v) = creditValueSize
     /\ ~Bit(last.prev.v[9], 0)) =>
        LET v == last.prev.v
            w == credits[last.k]
        IN /\ Len(w) = creditValueSize
           /\ SubSeq(w, 1, 8) = SubSeq(v, 1, 8)
           /\ ~Bit(w[9], 0)
           /\ w[9] = v[9]
           /\ SubSeq(w, 82, 94) = SubSeq(v, 82, 94)
           /\ last.prev.amt = AmountOf(SubSeq(v, 1, 8))
           /\ last.amt = last.prev.amt

\* A coinbase change credit of amount 2 with an account was spent and
\* unspent again; the value still carries the spender's key.
C14_Witness ==
    /\ last.op = "unspendRawCredit"
    /\ last.prev.op = "spendCredit"
    /\ ~Bit(last.prev.v[9], 0)
    /\ Bit(last.prev.v[9], 1) /\ Bit(last.prev.v[9], 5)
    /\ last.amt = 2
    /\ SubSeq(last.prev.v, 91, 94) = PutUint32(7)
    /\ SubSeq(credits[last.k], 10, 41) = Hash(2)

(***************************************************************************)
(* Decoders of persisted keys and values                                   *)
(***************************************************************************)
\* fetchRawCreditAccount(v), for an account below 2^31.
fetchRawCreditAccount(v) ==
    IF Len(v) < creditValueSize
    THEN [account |-> 0, err |-> storeError("ErrData", "short credit value", NoErr)]
    ELSE IF ~Bit(v[82], 7)
    THEN [account |-> 0, err |-> storeError("ErrValueNoExists", "account value unset", NoErr)]
    ELSE [account |-> Uint32(SubSeq(v, 91, 94)), err |-> NoErr]

unconfValueSizeLegacy == 9

unconfValueSize == 22

valueUnminedCredit(amount, change, opCode, isCoinbase, scrType, scrLoc, scrLen, account) ==
    LET f0 == condenseOpCode(opCode)
        f1 == IF change THEN SetBit(f0, 1) ELSE f0
        f2 == IF isCoinbase THEN SetBit(f1, 5) ELSE f1
    IN PutUint64(amount) \o <<f2, SetBit(scrType, 7)>> \o PutUint32(scrLoc) \o PutUint32(scrLen)
           \o PutUint32(account)

\* fetchRawUnminedCreditAccount(v), for an account below 2^31.
fetchRawUnminedCreditAccount(v) ==
    IF Len(v) < unconfValueSize
    THEN [account |-> 0,
          err |-> storeError("ErrData", "short unmined credit value when look up account", NoErr)]
    ELSE IF ~Bit(v[10], 7)
    THEN [account |-> 0, err |-> storeError("ErrValueNoExists", "account value unset", NoErr)]
    ELSE [account |-> Uint32(SubSeq(v, 19, 22)), err |-> NoErr]

\* fetchMultisigOut(k, v), for a block height and a spender index whose
\* first byte is below 128.
fetchMultisigOut(k, v) ==
    IF Len(k) # 36
    THEN [err |-> storeError("ErrDatabase", "multisig out k is wrong size", NoErr)]
    ELSE IF Len(v) # 135
    THEN [err |-> storeError("ErrDatabase", "multisig out v is wrong size", NoErr)]
    ELSE [err |-> NoErr,
          OutPoint |-> [Hash |-> SubSeq(k, 1, 32), Index |-> Uint32(SubSeq(k, 33, 36)),
                        Tree |-> TxTreeRegular],
          ScriptHash |-> SubSeq(v, 1, 20),
          M |-> v[21],
          N |-> v[22],
          Spent |-> Bit(v[23], 0),
          Tree |-> IF Bit(v[23], 1) THEN 1 ELSE 0,
          BlockHash |-> SubSeq(v, 24, 55),
          BlockHeight |-> SubSeq(v, 56, 59),
          Amount |-> AmountOf(SubSeq(v, 60, 67)),
          SpentBy |-> SubSeq(v, 68, 99),
          SpentByIndex |-> SubSeq(v, 100, 103),
          TxHash |-> SubSeq(v, 104, 135)]

\* fetchRawTxRecordPkScript(k, v, index, scrLoc, scrLen) for a stored
\* script location (scrLoc is not scriptLocNotStored).  The slice
\* v[scrLoc+8 : scrLoc+8+scrLen] is not checked against len(v): beyond the
\* capacity of v it panics, and within the capacity it reads the bytes that
\* follow the value in memory.  mem says which: the capacity of v beyond
\* its length and the byte found there.
\* A reader that slices at the stored location itself, without the offset
\* for the timestamp.
fetchRawTxRecordPkScriptNoOffset(v, scrLoc, scrLen, mem) ==
    IF scrLoc + scrLen > Len(v) + mem.extra
    THEN [panic |-> TRUE, pkScript |-> Nil, err |-> NoErr]
    ELSE [panic |-> FALSE,
          pkScript |-> SubSeq(v \o [i \in 1..mem.extra |-> mem.byte], scrLoc + 1, scrLoc + scrLen),
          err |-> NoErr]

fetchRawTxRecordPkScript(v, scrLoc, scrLen, mem) ==
    LET scrLocInt == scrLoc + 8
        end == scrLocInt + scrLen
    IN IF end > Len(v) + mem.extra
       THEN [panic |-> TRUE, pkScript |-> Nil, err |-> NoErr]
       ELSE [panic |-> FALSE,
             pkScript |-> SubSeq(v \o [i \in 1..mem.extra |-> mem.byte], scrLocInt + 1, end),
             err |-> NoErr]

(***************************************************************************)
(* Decoding what a store holds: values written by this version, values of  *)
(* the older formats (a mined credit without script locator, an unmined    *)
(* credit of 9 bytes), and keys and values cut short.                      *)
(***************************************************************************)
\* Mined credit values as valueUnspentCredit writes them.
MinedCreditValues ==
    {valueUnspentCredit([amount |-> amount, opCode |-> 186, change |-> change,
                         isCoinbase |-> FALSE], scrType, 12, 25, account) :
        amount \in 0..MaxAmount, change \in BOOLEAN, scrType \in {1, 2}, account \in {0, 1, 7}}

\* Mined credit values without the script locator.
LegacyMinedCreditValues == {SubSeq(v, 1, 81) : v \in MinedCreditValues}

\* Mined credit values with a script locator whose account was never set.
NoAccountCreditValues == {[v EXCEPT ![82] = ClearBit(@, 7)] : v \in MinedCreditValues}

\* Unmined credit values as valueUnminedCredit writes them.
UnminedCreditValues ==
    {valueUnminedCredit(amount, change, 186, FALSE, scrType, 12, 25, account) :
        amount \in 0..MaxAmount, change \in BOOLEAN, scrType \in {1, 2}, account \in {0, 1, 7}}

\* Unmined credit values in the 9-byte form of version 1.
LegacyUnminedCreditValues == {SubSeq(v, 1, unconfValueSizeLegacy) : v \in UnminedCreditValues}

MultisigValues ==
    {valueMultisigOut(Hash(9), 1, 2, spent, tree, Hash(11), 1, amount, Hash(4), 0, Hash(1)) :
        spent \in BOOLEAN, tree \in {TxTreeRegular, TxTreeStake}, amount \in 1..MaxAmount}

\* A tx record value: received time and four bytes of transaction.
TxRecordValue == PutUint64(1) \o <<1, 2, 3, 4>>

\* A store holding one unspent credit, in the current or in the older form.
DecodeInit ==
    /\ \E amount \in 1..MaxAmount, legacy \in BOOLEAN :
          LET v == valueUnspentCredit([amount |-> amount, opCode |-> 186, change |-> FALSE,
                                       isCoinbase |-> FALSE], 2, 12, 25, 0)
          IN /\ credits = putRawCredit(EmptyMap, CredKey(TheCredit),
                                       IF legacy THEN SubSeq(v, 1, 81) ELSE v)
             /\ root = putMinedBalance(CreatedNS(1).root, amount)
    /\ buckets = AllBuckets
    /\ unspent = putUnspent(EmptyMap, TheCredit.outPoint, TheCredit.block)
    /\ debits = EmptyMap
    /\ multisig = EmptyMap
    /\ multisigUsp = EmptyMap
    /\ blocks = EmptyMap
    /\ txRecords = EmptyMap
    /\ it = NoIter
    /\ unminedCredits = EmptyMap
    /\ unminedInputs = EmptyMap
    /\ pm = NoManager
    /\ last = NoCall
    /\ hist = NoHist

FetchRawCreditAccount ==
    \E v \in MinedCreditValues \cup LegacyMinedCreditValues \cup NoAccountCreditValues :
        /\ last' = [op |-> "fetchRawCreditAccount", v |-> v, ret |-> fetchRawCreditAccount(v)]
        /\ UNCHANGED <<unminedCredits, unminedInputs, pm, root, buckets, credits, unspent, debits, multisig, multisigUsp, blocks,
                       txRecords, it, hist>>

FetchRawUnminedCreditAccount ==
    \E v \in UnminedCreditValues \cup LegacyUnminedCreditValues :
        /\ last' = [op |-> "fetchRawUnminedCreditAccount", v |-> v,
                    ret |-> fetchRawUnminedCreditAccount(v)]
        /\ UNCHANGED <<unminedCredits, unminedInputs, pm, root, buckets, credits, unspent, debits, multisig, multisigUsp, blocks,
                       txRecords, it, hist>>

FetchMultisigOut ==
    \E op \in MsOutPoints, cutK \in 0..1, w \in MultisigValues, cutV \in 0..1 :
        LET k == SubSeq(MsKey(op), 1, 36 - cutK)
            v == SubSeq(w, 1, 135 - cutV)
        IN /\ last' = [op |-> "fetchMultisigOut", k |-> k, v |-> v, ret |-> fetchMultisigOut(k, v)]
           /\ UNCHANGED <<unminedCredits, unminedInputs, pm, root, buckets, credits, unspent, debits, multisig, multisigUsp,
                          blocks, txRecords, it, hist>>

FetchRawTxRecordPkScript ==
    \E scrLoc \in 1..2, scrLen \in 0..4, mem \in [extra : {0, 2}, byte : {0, 255}] :
        /\ last' = [op |-> "fetchRawTxRecordPkScript", v |-> TxRecordValue, scrLoc |-> scrLoc,
                    scrLen |-> scrLen,
                    ret |-> fetchRawTxRecordPkScript(TxRecordValue, scrLoc, scrLen, mem)]
        /\ UNCHANGED <<unminedCredits, unminedInputs, pm, root, buckets, credits, unspent, debits, multisig, multisigUsp, blocks,
                       txRecords, it, hist>>

DecodeNext ==
    \/ SpendRecorded
    \/ FetchRawCreditAccount
    \/ FetchRawUnminedCreditAccount
    \/ FetchMultisigOut
    \/ FetchRawTxRecordPkScript

DecodeSpec == DecodeInit /\ [][DecodeNext]_vars

\* C15: a decoder given a key or value shorter than it needs returns an
\* error of kind Data and reads nothing: fetchMultisigOut for a key that is
\* not 36 bytes or a value that is not 135 bytes, fetchRawTxRecordPkScript
\* for a script beyond the end of the tx record value, and spendCredit for
\* a credit value shorter than 94 bytes, which it then leaves as it is.
C15_DecodersValidateLength ==
    /\ (last.op = "fetchMultisigOut" /\ (Len(last.k) # 36 \/ Len(last.v) # 135)) =>
          Kind(last.ret.err) = "ErrData"
    /\ (last.op = "fetchRawTxRecordPkScript" /\ last.scrLoc + 8 + last.scrLen > Len(last.v)) =>
          (~last.ret.panic /\ Kind(last.ret.err) = "ErrData")
    /\ (last.op = "spendCredit" /\ Len(last.v) < creditValueSize) =>
          Get(credits, last.k) = last.v

\* C16: the account of a legacy credit (a mined credit value without the
\* script locator, an unmined credit value of 9 bytes) is answered with an
\* error of kind ValueNoExists; the account of a credit written by
\* valueUnspentCredit or valueUnminedCredit with account a is a.
C16_LegacyCreditAccount ==
    /\ (last.op = "fetchRawCreditAccount" /\ Len(last.v) < creditValueSize) =>
          Kind(last.ret.err) = "ErrValueNoExists"
    /\ (last.op = "fetchRawUnminedCreditAccount" /\ Len(last.v) = unconfValueSizeLegacy) =>
          Kind(last.ret.err) = "ErrValueNoExists"
    /\ (last.op = "fetchRawCreditAccount" /\ last.v \in MinedCreditValues) =>
          (last.ret.err = NoErr /\ last.ret.account = Uint32(SubSeq(last.v, 91, 94)))
    /\ (last.op = "fetchRawUnminedCreditAccount" /\ last.v \in UnminedCreditValues) =>
          (last.ret.err = NoErr /\ last.ret.account = Uint32(SubSeq(last.v, 19, 22)))

(***************************************************************************)
(* The script-offset convention of the tx-record value                     *)
(***************************************************************************)

\* The bytes v[a .. b) of a value, counted from zero as the source does.
Slice(v, a, b) == SubSeq(v, a + 1, b)

\* C21 as stated: for a non-zero stored script offset off and length len,
\* fetchRawTxRecordPkScript returns the bytes v[off .. off+len) of the
\* tx-record value, with no adjustment applied on read.
C21_ScriptOffsetUnadjusted ==
    (/\ last.op = "fetchRawTxRecordPkScript"
     /\ last.scrLoc # 0
     /\ last.scrLoc + last.scrLen <= Len(last.v))
    => (/\ ~last.ret.panic
        /\ last.ret.pkScript = Slice(last.v, last.scrLoc, last.scrLoc + last.scrLen))

\* C21: for a non-zero stored script offset off and length len with
\* off + 8 + len within the tx-record value v, fetchRawTxRecordPkScript
\* returns the bytes v[off+8 .. off+8+len): the stored offset is measured
\* from the start of the serialized transaction and the reader adds the 8
\* bytes of the received time.
C21_ScriptOffsetSkipsTimestamp ==
    (/\ last.op = "fetchRawTxRecordPkScript"
     /\ last.scrLoc # 0
     /\ last.scrLoc + 8 + last.scrLen <= Len(last.v))
    => (/\ ~last.ret.panic
        /\ last.ret.err = NoErr
        /\ last.ret.pkScript = Slice(last.v, last.scrLoc + 8, last.scrLoc + 8 + last.scrLen))

\* A script of two bytes was read at offset 1: the bytes after the
\* timestamp, which differ from the bytes at offset 1 of the value.
C21_Witness ==
    /\ last.op = "fetchRawTxRecordPkScript"
    /\ last.scrLoc = 1
    /\ last.scrLen = 2
    /\ ~last.ret.panic
    /\ last.ret.pkScript = <<2, 3>>
    /\ Slice(last.v, 1, 3) = <<0, 0>>

(***************************************************************************)
(* The setters of the multisig value                                       *)
(***************************************************************************)

\* setMultisigOutMined(v, blockHash, blockHeight)
setMultisigOutMined(v, blockHash, blockHeight) ==
    Copy(Copy(v, 23, 32, blockHash), 55, 4, PutUint32(blockHeight))

\* setMultisigOutUnmined(v)
setMultisigOutUnmined(v) ==
    Copy(Copy(v, 23, 32, Zeros(32)), 55, 4, PutUint32(0))

\* fetchMultisigOutTree(v)
fetchMultisigOutTree(v) == IF Bit(v[23], 1) THEN TxTreeStake ELSE TxTreeRegular

\* fetchMultisigOutSpentVerbose(v)
fetchMultisigOutSpentVerbose(v) ==
    [spent |-> Bit(v[23], 0), spentBy |-> SubSeq(v, 68, 99),
     spentIndex |-> Uint32(SubSeq(v, 100, 103))]

\* The output the setters are applied to, and its spenders: one has 32
\* different bytes, so that each byte of the spent-by field can be told apart.
MsOut == [Hash |-> Hash(1), Index |-> 0]

MsSetSpenders ==
    {[hash |-> [j \in 1..32 |-> 100 + j], index |-> 2], [hash |-> Hash(5), index |-> 0]}

PrevSetterCall ==
    IF last.op \in {"setMultisigOutSpent", "setMultisigOutUnSpent", "setMultisigOutMined",
                    "setMultisigOutUnmined"}
    THEN [op |-> last.op, v |-> last.v, w |-> last.w, spendHash |-> last.spendHash,
          spendIndex |-> last.spendIndex]
    ELSE [op |-> "none"]

\* One multisig record, spent or not, in either tree.
MsSetterInit ==
    /\ root = CreatedNS(1).root
    /\ buckets = AllBuckets
    /\ credits = EmptyMap
    /\ unspent = EmptyMap
    /\ debits = EmptyMap
    /\ \E v \in MultisigValues :
          /\ multisig = putMultisigOutRawValues(EmptyMap, MsKey(MsOut), v)
          /\ multisigUsp = IF fetchMultisigOutSpent(v) THEN EmptyMap
                           ELSE putMultisigOutUS(EmptyMap, MsKey(MsOut))
    /\ blocks = EmptyMap
    /\ txRecords = EmptyMap
    /\ it = NoIter
    /\ unminedCredits = EmptyMap
    /\ unminedInputs = EmptyMap
    /\ pm = NoManager
    /\ last = NoCall
    /\ hist = NoHist

\* What a setter call leaves behind: the value read, the value written.
SetterCall(op, v, w, spendHash, spendIndex) ==
    /\ multisig' = putMultisigOutRawValues(multisig, MsKey(MsOut), w)
    /\ last' = [op |-> op, v |-> v, w |-> w, spendHash |-> spendHash,
                spendIndex |-> spendIndex, prev |-> PrevSetterCall]
    /\ UNCHANGED <<root, buckets, credits, unspent, debits, blocks, txRecords, it,
                   unminedCredits, unminedInputs, pm, hist>>

SetMultisigOutSpent ==
    \E sp \in MsSetSpenders :
        LET v == existsMultisigOut(multisig, MsKey(MsOut))
        IN /\ SetterCall("setMultisigOutSpent", v, setMultisigOutSpent(v, sp.hash, sp.index),
                         sp.hash, sp.index)
           /\ multisigUsp' = deleteMultisigOutUS(multisigUsp, MsKey(MsOut))

SetMultisigOutUnSpent ==
    LET v == existsMultisigOut(multisig, MsKey(MsOut))
    IN /\ SetterCall("setMultisigOutUnSpent", v, setMultisigOutUnSpent(v), Nil, 0)
       /\ multisigUsp' = putMultisigOutUS(multisigUsp, MsKey(MsOut))

SetMultisigOutMined ==
    LET v == existsMultisigOut(multisig, MsKey(MsOut))
    IN /\ SetterCall("setMultisigOutMined", v,
                     setMultisigOutMined(v, Block2.Hash, Block2.Height), Nil, 0)
       /\ UNCHANGED multisigUsp

SetMultisigOutUnmined ==
    LET v == existsMultisigOut(multisig, MsKey(MsOut))
    IN /\ SetterCall("setMultisigOutUnmined", v, setMultisigOutUnmined(v), Nil, 0)
       /\ UNCHANGED multisigUsp

MsSetterNext ==
    \/ SetMultisigOutSpent
    \/ SetMultisigOutUnSpent
    \/ SetMultisigOutMined
    \/ SetMultisigOutUnmined

MsSetterSpec == MsSetterInit /\ [][MsSetterNext]_vars

\* v and w agree on byte i (counted from zero), except on the bits of mask.
SameByteExcept(v, w, i, mask) ==
    \A b \in 0..7 : Bit(mask, b) \/ (Bit(v[i + 1], b) <=> Bit(w[i + 1], b))

\* v and w differ at most in the bytes lo .. hi-1 and in bit 0 of byte 22
\* when spentBit is set.
ChangesOnly(v, w, lo, hi, spentBit) ==
    /\ Len(w) = Len(v)
    /\ \A i \in 0..(Len(v) - 1) :
          \/ (lo <= i /\ i < hi)
          \/ SameByteExcept(v, w, i, IF spentBit /\ i = 22 THEN 1 ELSE 0)

\* C22: setMultisigOutSpent and setMultisigOutUnSpent change only the Spent
\* bit (byte 22, bit 0), the spent-by hash and the spent-by index (bytes
\* 67..103); setMultisigOutMined and setMultisigOutUnmined change only the
\* block hash and height (bytes 23..59); fetchMultisigOutTree returns the
\* same tree before and after.
C22_SettersAreFieldSurgical ==
    /\ last.op \in {"setMultisigOutSpent", "setMultisigOutUnSpent"}
          => /\ ChangesOnly(last.v, last.w, 67, 103, TRUE)
             /\ fetchMultisigOutTree(last.w) = fetchMultisigOutTree(last.v)
    /\ last.op \in {"setMultisigOutMined", "setMultisigOutUnmined"}
          => /\ ChangesOnly(last.v, last.w, 23, 59, FALSE)
             /\ fetchMultisigOutTree(last.w) = fetchMultisigOutTree(last.v)

\* C23: after setMultisigOutSpent(v, spender, idx),
\* fetchMultisigOutSpentVerbose returns (true, spender, idx); after a
\* following setMultisigOutUnSpent the Spent bit is 0, the spent-by index is
\* 0xFFFFFFFF, value bytes 67..97 are zero and value byte 98 is still the
\* last byte of the spender.
C23_MultisigSpendRoundTrip ==
    /\ last.op = "setMultisigOutSpent"
          => fetchMultisigOutSpentVerbose(last.w) =
                 [spent |-> TRUE, spentBy |-> last.spendHash, spentIndex |-> last.spendIndex]
    /\ (last.op = "setMultisigOutUnSpent" /\ last.prev.op = "setMultisigOutSpent")
          => /\ last.v = last.prev.w
             /\ ~fetchMultisigOutSpent(last.w)
             /\ Slice(last.w, 99, 103) = <<255, 255, 255, 255>>
             /\ Slice(last.w, 67, 98) = Zeros(31)
             /\ last.w[99] = last.prev.spendHash[32]

\* An output was spent by the spender of 32 different bytes and then
\* unspent: byte 98 of the value still holds the spender's last byte.
C23_Witness ==
    /\ last.op = "setMultisigOutUnSpent"
    /\ last.prev.op = "setMultisigOutSpent"
    /\ last.prev.spendHash = [j \in 1..32 |-> 100 + j]
    /\ Slice(last.prev.w, 67, 99) = last.prev.spendHash
    /\ last.w[99] = 132
    /\ multisig[MsKey(MsOut)] = last.w

(***************************************************************************)
(* The flag byte of the credit values                                      *)
(***************************************************************************)

\* fetchRawCreditTagOpCode(v): ((v[8] >> 2) & 0x07) + 0xb9
fetchRawCreditTagOpCode(v) == (((v[9] \div 4) % 8) + 185) % 256

\* fetchRawCreditIsCoinbase(v)
fetchRawCreditIsCoinbase(v) == Bit(v[9], 5)

\* fetchRawUnminedCreditTagOpcode(v)
fetchRawUnminedCreditTagOpcode(v) == (((v[9] \div 4) % 8) + 185) % 256

\* fetchRawUnminedCreditTagIsCoinbase(v)
fetchRawUnminedCreditTagIsCoinbase(v) == Bit(v[9], 5)

\* putRawUnminedCredit(ns, k, v)
putRawUnminedCredit(mc, k, v) == MapPut(mc, k, v)

\* The raw stake opcodes OP_SSTX .. OP_SSTXCHANGE and, beside them, opcode
\* values that tag no stake output.
StakeOpCodes == 185..189

OpCodes == StakeOpCodes \cup {0, 184, 190, 192, 193, 255}

\* valueUnspentCredit of the credit, written with putRawCredit.
ValueUnspentCredit ==
    \E opCode \in OpCodes, change \in BOOLEAN, isCoinbase \in BOOLEAN :
        LET v == valueUnspentCredit([amount |-> 1, opCode |-> opCode, change |-> change,
                                     isCoinbase |-> isCoinbase], 2, 12, 25, 0)
        IN /\ credits' = putRawCredit(credits, CredKey(TheCredit), v)
           /\ last' = [op |-> "valueUnspentCredit", opCode |-> opCode, change |-> change,
                       isCoinbase |-> isCoinbase, v |-> v]
           /\ UNCHANGED <<root, buckets, unspent, debits, multisig, multisigUsp, blocks,
                          txRecords, it, unminedCredits, unminedInputs, pm, hist>>

\* valueUnminedCredit of the credit, written with putRawUnminedCredit.
ValueUnminedCredit ==
    \E opCode \in OpCodes, change \in BOOLEAN, isCoinbase \in BOOLEAN :
        LET v == valueUnminedCredit(1, change, opCode, isCoinbase, 2, 12, 25, 0)
            k == canonicalOutPoint(TheCredit.outPoint.Hash, TheCredit.outPoint.Index)
        IN /\ unminedCredits' = putRawUnminedCredit(unminedCredits, k, v)
           /\ last' = [op |-> "valueUnminedCredit", opCode |-> opCode, change |-> change,
                       isCoinbase |-> isCoinbase, v |-> v]
           /\ UNCHANGED <<root, buckets, credits, unspent, debits, multisig, multisigUsp,
                          blocks, txRecords, it, unminedInputs, pm, hist>>

FlagNext == ValueUnspentCredit \/ ValueUnminedCredit

FlagSpec == CreditInit /\ [][FlagNext]_vars

\* The opcode and the flags read back from a value, with the reader of the
\* bucket the value was written for.
ReadBack(op, v) ==
    [opCode |-> IF op = "valueUnspentCredit" THEN fetchRawCreditTagOpCode(v)
                ELSE fetchRawUnminedCreditTagOpcode(v),
     change |-> Bit(v[9], 1),
     isCoinbase |-> IF op = "valueUnspentCredit" THEN fetchRawCreditIsCoinbase(v)
                    ELSE fetchRawUnminedCreditTagIsCoinbase(v),
     spent |-> Bit(v[9], 0)]

C29_FlagByteIsolation ==
    last.op \in {"valueUnspentCredit", "valueUnminedCredit"}
    => /\ \A b \in {0, 1, 5, 6, 7} : ~Bit(condenseOpCode(last.opCode), b)
       /\ ~ReadBack(last.op, last.v).spent
       /\ ReadBack(last.op, last.v).change = last.change
       /\ ReadBack(last.op, last.v).isCoinbase = last.isCoinbase

(***************************************************************************)
(* Forward iterators: blockIterator.next and the prefix iterators of the   *)
(* buckets "c", "d" and "mc"                                               *)
(***************************************************************************)

\* blockIterator.next
next(i, b) ==
    IF ~i.c THEN [it |-> i, ret |-> FALSE]
    ELSE IterRead(i, b, IF i.ck = Nil THEN CursorSeek(b, i.seek) ELSE CursorNext(b, i.ck))

\* A creditIterator, debitIterator or unminedCreditIterator: they differ in
\* the bucket of the cursor and in readElem.
makeCreditIterator(prefix) ==
    [made |-> TRUE, kind |-> "credit", c |-> TRUE, prefix |-> prefix, ck |-> Nil, cv |-> Nil,
     elem |-> [err |-> NoErr], err |-> NoErr]

makeDebitIterator(prefix) ==
    [made |-> TRUE, kind |-> "debit", c |-> TRUE, prefix |-> prefix, ck |-> Nil, cv |-> Nil,
     elem |-> [err |-> NoErr], err |-> NoErr]

makeUnminedCreditIterator(txHash) ==
    [made |-> TRUE, kind |-> "unminedCredit", c |-> TRUE, prefix |-> txHash, ck |-> Nil,
     cv |-> Nil, elem |-> [err |-> NoErr], err |-> NoErr]

\* creditIterator.readElem
creditReadElem(ck, cv) ==
    IF Len(ck) < 72
    THEN [err |-> storeError("ErrData", "short key for credit iterator key", NoErr)]
    ELSE IF Len(cv) < 9
    THEN [err |-> storeError("ErrData", "short read for credit iterator value", NoErr)]
    ELSE [err |-> NoErr,
          Index |-> Uint32(SubSeq(ck, 69, 72)),
          Amount |-> AmountOf(SubSeq(cv, 1, 8)),
          Spent |-> Bit(cv[9], 0),
          Change |-> Bit(cv[9], 1),
          OpCode |-> fetchRawCreditTagOpCode(cv),
          IsCoinbase |-> fetchRawCreditIsCoinbase(cv)]

\* debitIterator.readElem
debitReadElem(ck, cv) ==
    IF Len(ck) < 72
    THEN [err |-> storeError("ErrData", "short key for debit iterator key", NoErr)]
    ELSE IF Len(cv) < 80
    THEN [err |-> storeError("ErrData", "short read for debite iterator value", NoErr)]
    ELSE [err |-> NoErr,
          Index |-> Uint32(SubSeq(ck, 69, 72)),
          Amount |-> AmountOf(SubSeq(cv, 1, 8))]

\* fetchRawUnminedCreditIndex(k)
fetchRawUnminedCreditIndex(k) ==
    IF Len(k) < 36
    THEN [index |-> 0,
          err |-> storeError("ErrData", "short unmined credit key when look up credit idx",
                             NoErr)]
    ELSE [index |-> Uint32(SubSeq(k, 33, 36)), err |-> NoErr]

\* fetchRawUnminedCreditAmountChange(v)
fetchRawUnminedCreditAmountChange(v) ==
    IF Len(v) < unconfValueSizeLegacy
    THEN [amt |-> 0, change |-> FALSE,
          err |-> storeError("ErrData",
                             "short unmined credit value when look up credit amt change",
                             NoErr)]
    ELSE [amt |-> AmountOf(SubSeq(v, 1, 8)), change |-> Bit(v[9], 1), err |-> NoErr]

\* unminedCreditIterator.readElem: Spent is not set.
unminedCreditReadElem(ck, cv) ==
    LET i == fetchRawUnminedCreditIndex(ck)
        a == fetchRawUnminedCreditAmountChange(cv)
    IN IF i.err # NoErr THEN [err |-> i.err]
       ELSE IF a.err # NoErr THEN [err |-> a.err]
       ELSE [err |-> NoErr, Index |-> i.index, Amount |-> a.amt, Change |-> a.change]

readElem(kind, ck, cv) ==
    IF kind = "credit" THEN creditReadElem(ck, cv)
    ELSE IF kind = "debit" THEN debitReadElem(ck, cv)
    ELSE unminedCreditReadElem(ck, cv)

\* next of a prefix iterator that goes on past the last key of the prefix.
nextPrefixToTheEnd(i, b) ==
    IF ~i.c THEN [it |-> i, ret |-> FALSE]
    ELSE LET ck == IF i.ck = Nil THEN CursorSeek(b, i.prefix) ELSE CursorNext(b, i.ck)
             cv == IF ck = Nil THEN Nil ELSE b[ck]
             moved == [i EXCEPT !.ck = ck, !.cv = cv]
             e == readElem(i.kind, ck, cv)
         IN IF ck = Nil THEN [it |-> [moved EXCEPT !.c = FALSE], ret |-> FALSE]
            ELSE IF e.err # NoErr THEN [it |-> [moved EXCEPT !.err = e.err], ret |-> FALSE]
            ELSE [it |-> [moved EXCEPT !.elem = e], ret |-> TRUE]

\* creditIterator.next, debitIterator.next, unminedCreditIterator.next: the
\* cursor is dropped when the key read does not start with the prefix, and
\* is kept when readElem fails.
nextPrefix(i, b) ==
    IF ~i.c THEN [it |-> i, ret |-> FALSE]
    ELSE LET ck == IF i.ck = Nil THEN CursorSeek(b, i.prefix) ELSE CursorNext(b, i.ck)
             cv == IF ck = Nil THEN Nil ELSE b[ck]
             moved == [i EXCEPT !.ck = ck, !.cv = cv]
             e == readElem(i.kind, ck, cv)
         IN IF ~HasPrefix(ck, i.prefix)
            THEN [it |-> [moved EXCEPT !.c = FALSE], ret |-> FALSE]
            ELSE IF e.err # NoErr THEN [it |-> [moved EXCEPT !.err = e.err], ret |-> FALSE]
            ELSE [it |-> [moved EXCEPT !.elem = e], ret |-> TRUE]

\* putRawUnminedInput(ns, k, v)
putRawUnminedInput(mi, k, v) == MapPut(mi, k, v)

\* The bucket an iterator's cursor is on.
BucketOf(kind) ==
    IF kind = "block" THEN blocks
    ELSE IF kind = "credit" THEN credits
    ELSE IF kind = "debit" THEN debits
    ELSE unminedCredits

\* Outputs of two transactions mined in one block, and what a bucket may
\* hold for each: no record, a well-formed one, or one too short to decode.
ScanOutputs == {[tx |-> 1, index |-> 0], [tx |-> 1, index |-> 1], [tx |-> 2, index |-> 0]}

ScanHeights == {1, 2}

ScanKey(kind, o) ==
    IF kind = "credit" THEN keyCredit(Hash(o.tx), o.index, Block1)
    ELSE IF kind = "debit" THEN keyDebit(Hash(o.tx), o.index, Block1)
    ELSE canonicalOutPoint(Hash(o.tx), o.index)

ScanValue(kind, o, what) ==
    LET cred == valueUnspentCredit([amount |-> 1, opCode |-> 185, change |-> FALSE,
                                    isCoinbase |-> FALSE], 2, 12, 25, 0)
    IN IF what = "short" THEN PutUint64(1)
       ELSE IF kind = "credit"
       THEN (IF what = "spent" THEN [cred EXCEPT ![9] = SetBit(@, 0)] ELSE cred)
       ELSE IF kind = "debit"
       THEN putDebit(EmptyMap, Hash(o.tx), o.index, 1, Block1,
                     keyCredit(Hash(9), 0, Block1))[keyDebit(Hash(o.tx), o.index, Block1)]
       ELSE valueUnminedCredit(1, FALSE, 185, FALSE, 2, 12, 25, 0)

\* The contents a bucket of the kind may have.
ScanContents(kind) ==
    {[k \in {ScanKey(kind, o) : o \in {x \in ScanOutputs : f[x] # "absent"}} |->
         LET o == CHOOSE x \in ScanOutputs : ScanKey(kind, x) = k
         IN ScanValue(kind, o, f[o])] :
       f \in [ScanOutputs -> IF kind = "credit" THEN {"absent", "good", "spent", "short"}
                             ELSE {"absent", "good", "short"}]}

BlockContents ==
    {[k \in {keyBlockRecord(h) : h \in {x \in ScanHeights : f[x] # "absent"}} |->
         IF f[Uint32(k)] = "short" THEN Hash(1)
         ELSE valueBlockRecordEmpty(BlockMetaAt(Uint32(k)))] :
       f \in [ScanHeights -> {"absent", "good", "short"}]}

\* One of the buckets "b", "c", "d", "mc" holds records; with credits,
\* bucket "mi" may hold an unmined spender of the first output.
ScanInit ==
    /\ root = CreatedNS(1).root
    /\ buckets = AllBuckets
    /\ unspent = EmptyMap
    /\ multisig = EmptyMap
    /\ multisigUsp = EmptyMap
    /\ txRecords = EmptyMap
    /\ \E which \in {"block", "credit", "debit", "unminedCredit"} :
          /\ blocks \in (IF which = "block" THEN BlockContents ELSE {EmptyMap})
          /\ credits \in (IF which = "credit" THEN ScanContents("credit") ELSE {EmptyMap})
          /\ debits \in (IF which = "debit" THEN ScanContents("debit") ELSE {EmptyMap})
          /\ unminedCredits \in (IF which = "unminedCredit" THEN ScanContents("unminedCredit")
                                 ELSE {EmptyMap})
          /\ unminedInputs \in
                (IF which = "credit"
                 THEN {EmptyMap, putRawUnminedInput(EmptyMap, canonicalOutPoint(Hash(1), 0),
                                                    Hash(7))}
                 ELSE {EmptyMap})
    /\ it = NoIter
    /\ pm = NoManager
    /\ last = NoCall
    /\ hist = NoHist

\* What making an iterator leaves besides the iterator: nothing is read.
MadeIterator ==
    /\ ~it.made
    /\ last' = [op |-> "make", yielded |-> <<>>, ended |-> 0]
    /\ UNCHANGED <<root, buckets, credits, unspent, debits, multisig, multisigUsp, blocks,
                   txRecords, unminedCredits, unminedInputs, pm, hist>>

MakeBlockIterator ==
    /\ \E height \in {0, 2} : it' = makeBlockIterator(height)
    /\ MadeIterator

\* The prefixes given to a credit or debit iterator: the tx-record key of a
\* mined transaction, or no bytes at all for a scan of the whole bucket.
ScanPrefixes == {keyTxRecord(Hash(tx), Block1) : tx \in {1, 2}} \cup {<<>>}

MakeCreditIterator ==
    /\ \E prefix \in ScanPrefixes : it' = makeCreditIterator(prefix)
    /\ MadeIterator

MakeDebitIterator ==
    /\ \E prefix \in ScanPrefixes : it' = makeDebitIterator(prefix)
    /\ MadeIterator

MakeUnminedCreditIterator ==
    /\ \E tx \in {1, 2} : it' = makeUnminedCreditIterator(Hash(tx))
    /\ MadeIterator

\* it.next(); the keys of the records it has yielded are kept in last, with
\* the number of calls that returned false and the error held before the call.
\* A reverse block iterator is advanced with prev() until it returns false.
NextCall ==
    /\ it.made
    /\ last.ended <= MaxCallsAfterEnd
    /\ (it.kind = "block" /\ it.seek = <<255, 255, 255, 255>>) => last.ended > 0
    /\ LET r == IF it.kind = "block" THEN next(it, blocks)
                ELSE nextPrefix(it, BucketOf(it.kind))
       IN /\ it' = r.it
          /\ last' = [op |-> "next", ret |-> r.ret,
                      yielded |-> IF r.ret THEN Append(last.yielded, r.it.ck)
                                  ELSE last.yielded,
                      ended |-> IF r.ret THEN last.ended ELSE last.ended + 1,
                      errBefore |-> it.err]
    /\ UNCHANGED <<root, buckets, credits, unspent, debits, multisig, multisigUsp, blocks,
                   txRecords, unminedCredits, unminedInputs, pm, hist>>

ScanNext ==
    \/ MakeBlockIterator
    \/ MakeReverseBlockIterator
    \/ MakeCreditIterator
    \/ MakeDebitIterator
    \/ MakeUnminedCreditIterator
    \/ NextCall
    \/ Prev

ScanSpec == ScanInit /\ [][ScanNext]_vars

\* The keys of a set, least first.
RECURSIVE Ascending(_)
Ascending(ks) ==
    IF ks = {} THEN <<>> ELSE <<MinKey(ks)>> \o Ascending(ks \ {MinKey(ks)})

\* The keys of the iterator's bucket that start with its prefix, in order.
Matching == Ascending({k \in DOMAIN BucketOf(it.kind) : HasPrefix(k, it.prefix)})

Decodes(k) == readElem(it.kind, k, BucketOf(it.kind)[k]).err = NoErr

\* What C25 says of the state a next() call leaves.
PrefixScanHolds ==
    /\ (\A k \in DOMAIN BucketOf(it.kind) : HasPrefix(k, it.prefix) => Decodes(k)) =>
          /\ last.yielded = SubSeq(Matching, 1, Len(last.yielded))
          /\ last.ret => /\ last.ended = 0
                         /\ it.ck = last.yielded[Len(last.yielded)]
                         /\ it.cv = BucketOf(it.kind)[it.ck]
                         /\ it.elem = readElem(it.kind, it.ck, it.cv)
          /\ ~last.ret => last.yielded = Matching /\ it.err = NoErr
    /\ (last.ret /\ it.kind = "credit") => (it.elem.Spent <=> Bit(it.cv[9], 0))
    /\ (it.c /\ it.ck \in DOMAIN BucketOf(it.kind) /\ HasPrefix(it.ck, it.prefix)
            /\ ~Decodes(it.ck)) =>
          ~last.ret /\ Kind(it.err) = "ErrData"

\* C25 as stated: for any prefix, the next() calls on a credit, debit or
\* unmined-credit iterator yield the records whose key starts with the
\* prefix, each once, in ascending key order, and then return false with
\* it.err nil; elem.Spent of a mined credit is bit 0 of its flag byte
\* whatever bucket "mi" holds; when the record read fails to decode, next()
\* returns false with it.err an error of kind Data.
C25_PrefixIteration ==
    (it.made /\ it.kind # "block" /\ last.op = "next") => PrefixScanHolds

\* C25: the same, for a prefix of at least one byte.
C25_NonEmptyPrefixIteration ==
    (it.made /\ it.kind # "block" /\ last.op = "next" /\ it.prefix # <<>>) => PrefixScanHolds

\* Both credits of transaction 1 were yielded in key order, the first
\* unspent in bucket "c" although bucket "mi" holds a spender of it, and
\* the scan ended at the credit of transaction 2.
C25_Witness ==
    /\ it.made
    /\ it.kind = "credit"
    /\ last.op = "next"
    /\ ~last.ret
    /\ it.err = NoErr
    /\ last.yielded = <<keyCredit(Hash(1), 0, Block1), keyCredit(Hash(1), 1, Block1)>>
    /\ keyCredit(Hash(2), 0, Block1) \in DOMAIN credits
    /\ canonicalOutPoint(Hash(1), 0) \in DOMAIN unminedInputs
    /\ ~Bit(credits[keyCredit(Hash(1), 0, Block1)][9], 0)

\* C28: once next() or prev() on a block, credit, debit or unmined-credit
\* iterator has returned false, every later next() call returns false,
\* yields nothing, and leaves a recorded it.err in place.
C28_ExhaustionIsSticky ==
    /\ (last.op \in {"next", "prev"} /\ last.ret) => last.ended = 0
    /\ (last.op = "next" /\ last.errBefore # NoErr) => it.err # NoErr

(***************************************************************************)
(* Deleting the record under an iterator's cursor                          *)
(***************************************************************************)

\* blockIterator.delete: the error of the cursor's Delete is wrapped with
\* storeError, the result of storeError is dropped, and nil is returned.
blockIteratorDelete(b, ck, engineErr) ==
    [bucket |-> IF engineErr = NoErr THEN MapDelete(b, ck) ELSE b,
     err |-> NoErr]

\* unminedCreditIterator.delete
unminedCreditIteratorDelete(b, ck, engineErr) ==
    [bucket |-> IF engineErr = NoErr THEN MapDelete(b, ck) ELSE b,
     err |-> IF engineErr # NoErr
             THEN storeError("ErrDatabase", "failed to delete unmined credit", engineErr)
             ELSE NoErr]

\* it.delete() on the record that next() or prev() has just yielded; the
\* engine deletes it or fails.
IterDelete ==
    /\ it.made
    /\ it.kind \in {"block", "unminedCredit"}
    /\ last.op \in {"next", "prev"}
    /\ last.ret
    /\ \E engineErr \in {NoErr, PlainErr("cursor Delete failed")} :
          LET r == IF it.kind = "block" THEN blockIteratorDelete(blocks, it.ck, engineErr)
                   ELSE unminedCreditIteratorDelete(unminedCredits, it.ck, engineErr)
          IN /\ blocks' = IF it.kind = "block" THEN r.bucket ELSE blocks
             /\ unminedCredits' = IF it.kind = "block" THEN unminedCredits ELSE r.bucket
             /\ last' = [op |-> "delete", kind |-> it.kind, ck |-> it.ck,
                         engineErr |-> engineErr, err |-> r.err, yielded |-> last.yielded,
                         ended |-> last.ended]
    /\ UNCHANGED <<root, buckets, credits, unspent, debits, multisig, multisigUsp, txRecords,
                   it, unminedInputs, pm, hist>>

DeleteNext == ScanNext \/ IterDelete

DeleteSpec == ScanInit /\ [][DeleteNext]_vars

\* C26: when the engine's cursor Delete fails, the delete of a block
\* iterator, like that of an unmined-credit iterator, returns an error of
\* kind Database; a failed delete is never reported as success.
C26_DeleteSurfacesEngineError ==
    (last.op = "delete" /\ last.engineErr # NoErr)
    => /\ Kind(last.err) = "ErrDatabase"
       /\ last.err.Err = last.engineErr

\* C27: spendCredit never creates a credit: no step puts under a key that
\* had no record in bucket "c" a record whose Spent bit is set; a spend on
\* an absent key leaves the bucket as it was.
C27_SpendNeverCreates ==
    [][\A k \in DOMAIN credits' : k \in DOMAIN credits \/ ~Bit(credits'[k][9], 0)]_vars

(***************************************************************************)
(* ticketbuyer: PurchaseManager.NotificationHandler and its workers        *)
(***************************************************************************)

\* Notifications received by one handler.
MaxNtfns == 2

\* The heights of the AttachedBlocks of a notification.
AttachedBlocksLists == {<<>>, <<1>>, <<1, 2>>}

\* A worker that does not wait for the one before it.
UnblockedAtOnce(p, j) == TRUE

\* <-s1 in worker j: the channel made for it has been closed.  Channel 1 is
\* the one the handler closes itself; channel j + 1 is s2 of worker j.
Unblocked(p, j) == j \in p.closed

\* NotificationHandler up to the loop: s1 is made and closed.
NotificationHandler ==
    /\ ~pm.started
    /\ pm' = [started |-> TRUE, loop |-> "select", closed |-> {1}, workers |-> <<>>,
              log |-> <<>>, failed |-> {}, atQuit |-> 0]
    /\ UNCHANGED <<root, buckets, credits, unspent, debits, multisig, multisigUsp, blocks,
                   txRecords, it, unminedCredits, unminedInputs, last, hist>>

\* case v := <-p.ntfnChan: a worker is started with the channels s1, s2 of
\* this round, and s1, s2 = s2, make(chan struct{}).
ReceiveNtfn ==
    /\ pm.started
    /\ pm.loop = "select"
    /\ Len(pm.workers) < MaxNtfns
    /\ \E attached \in AttachedBlocksLists :
          pm' = [pm EXCEPT !.workers = Append(@, [pc |-> "wait", blocks |-> attached,
                                                   i |-> 1])]
    /\ UNCHANGED <<root, buckets, credits, unspent, debits, multisig, multisigUsp, blocks,
                   txRecords, it, unminedCredits, unminedInputs, last, hist>>

\* case <-p.quit: break out.
Quit ==
    /\ pm.started
    /\ pm.loop = "select"
    /\ pm' = [pm EXCEPT !.loop = "exited", !.atQuit = Len(pm.log)]
    /\ UNCHANGED <<root, buckets, credits, unspent, debits, multisig, multisigUsp, blocks,
                   txRecords, it, unminedCredits, unminedInputs, last, hist>>

\* <-s1 // wait for previous worker to finish
WorkerWait(j) ==
    /\ pm.workers[j].pc = "wait"
    /\ Unblocked(pm, j)
    /\ pm' = [pm EXCEPT !.workers[j].pc = "range"]
    /\ UNCHANGED <<root, buckets, credits, unspent, debits, multisig, multisigUsp, blocks,
                   txRecords, it, unminedCredits, unminedInputs, last, hist>>

\* p.purchase(int64(block.Height)) is entered for the next attached block.
PurchaseCall(j) ==
    /\ pm.workers[j].pc = "range"
    /\ pm.workers[j].i <= Len(pm.workers[j].blocks)
    /\ pm' = [pm EXCEPT !.workers[j].pc = "purchase",
                        !.log = Append(@, [w |-> j,
                                           height |-> pm.workers[j].blocks[pm.workers[j].i]])]
    /\ UNCHANGED <<root, buckets, credits, unspent, debits, multisig, multisigUsp, blocks,
                   txRecords, it, unminedCredits, unminedInputs, last, hist>>

\* purchase returns: p.purchaser.Purchase gave an error, which is logged, or
\* it did not.
PurchaseReturn(j) ==
    /\ pm.workers[j].pc = "purchase"
    /\ \E failed \in BOOLEAN :
          pm' = [pm EXCEPT !.workers[j].pc = "range",
                           !.workers[j].i = @ + 1,
                           !.failed = IF failed THEN @ \cup {j} ELSE @]
    /\ UNCHANGED <<root, buckets, credits, unspent, debits, multisig, multisigUsp, blocks,
                   txRecords, it, unminedCredits, unminedInputs, last, hist>>

\* close(s2) // unblock next worker
CloseNext(j) ==
    /\ pm.workers[j].pc = "range"
    /\ pm.workers[j].i > Len(pm.workers[j].blocks)
    /\ pm' = [pm EXCEPT !.workers[j].pc = "done", !.closed = @ \cup {j + 1}]
    /\ UNCHANGED <<root, buckets, credits, unspent, debits, multisig, multisigUsp, blocks,
                   txRecords, it, unminedCredits, unminedInputs, last, hist>>

Workers == IF pm.started THEN 1..Len(pm.workers) ELSE {}

WorkerSteps ==
    \E j \in Workers : WorkerWait(j) \/ PurchaseCall(j) \/ PurchaseReturn(j) \/ CloseNext(j)

PurchaseNext ==
    \/ NotificationHandler
    \/ ReceiveNtfn
    \/ Quit
    \/ \E j \in Workers : WorkerWait(j)
    \/ \E j \in Workers : PurchaseCall(j)
    \/ \E j \in Workers : PurchaseReturn(j)
    \/ \E j \in Workers : CloseNext(j)

PurchaseSpec == CreditInit /\ [][PurchaseNext]_vars

\* Every worker goroutine that can take a step is scheduled in the end, and
\* a purchase call returns.
PurchaseFairSpec == PurchaseSpec /\ WF_vars(WorkerSteps)

\* The purchases of the notifications received so far, in the order of
\* receipt and, within a notification, of AttachedBlocks.
RECURSIVE PurchasesOf(_)
PurchasesOf(ws) ==
    IF ws = <<>> THEN <<>>
    ELSE PurchasesOf(SubSeq(ws, 1, Len(ws) - 1))
             \o [i \in 1..Len(ws[Len(ws)].blocks) |->
                    [w |-> Len(ws), height |-> ws[Len(ws)].blocks[i]]]

Serialized ==
    pm.started =>
        /\ Cardinality({j \in Workers : pm.workers[j].pc = "purchase"}) <= 1
        /\ pm.log = SubSeq(PurchasesOf(pm.workers), 1, Len(pm.log))

Received(j) == pm.started /\ Len(pm.workers) >= j

Processed(j) ==
    /\ Received(j)
    /\ pm.workers[j].pc = "done"
    /\ Len(pm.log) >= Len(PurchasesOf(SubSeq(pm.workers, 1, j)))

\* C30: no two purchase calls run at the same time, and purchases are made
\* in the order the notifications were received and, within one, in the
\* order of AttachedBlocks; every notification received is processed in the
\* end, whether a purchase failed or the handler loop has exited on quit.
C30_PurchasesSerialized ==
    /\ []Serialized
    /\ \A j \in 1..MaxNtfns : Received(j) ~> Processed(j)

\* Two notifications were received before quit; a purchase of the first
\* failed, and the purchases of the second were made after the loop exited.
C30_Witness ==
    /\ pm.started
    /\ pm.loop = "exited"
    /\ Len(pm.workers) = 2
    /\ 1 \in pm.failed
    /\ pm.atQuit < Len(PurchasesOf(SubSeq(pm.workers, 1, 1))) + 1
    /\ Len(pm.workers[2].blocks) = 2
    /\ Processed(2)

====
